---- MODULE Spec2Model ----
(***************************************************************************)
(* A model of umcp's request-to-process pipeline: the Sandbox validator,   *)
(* the Command Builder, the Process Executor and the Protocol Dispatcher.  *)
(* Text is modelled as a sequence of one-character strings, so that        *)
(* substring, prefix and basename tests are computed as the code computes  *)
(* them.                                                                   *)
(***************************************************************************)
EXTENDS Integers, Sequences, FiniteSets, TLC

VARIABLES
    sbTokens,      \* Sandbox check: cmdParts handed to ValidateCommand
    sbSecurity,    \* Sandbox check: the config.Security in force
    sbResult,      \* Sandbox check: Pending before the call, then the returned error / nil
    pc,            \* Server: where Run is: "await", "routing", "running", "handled", "closed"
    nread,         \* Server: number of ReadRequest calls made so far
    lastRead,      \* Server: how the latest ReadRequest call ended
    req,           \* Server: the request being handled
    call,          \* Server: the Execute call in progress: catalog, tool, arguments
    procs,         \* Server: the external processes started so far, in order
    ctxErr,        \* Server: whether ctx.Err() of the Execute call in progress is DeadlineExceeded
    out,           \* Server: the lines written to the output stream
    reqSent,       \* Server: the responses handed to SendResponse for the request being handled
    ret,           \* Server: what Execute returned for the request being handled
    parsed,        \* Server: whether ParseOutput was invoked for the request being handled
    chPc,          \* Chain: where ExecuteChain is: "idle", "loop", "running", "returned"
    chCfg,         \* Chain: the catalog ExecuteChain was called with (its place in Configs)
    chChain,       \* Chain: the chain ExecuteChain was called with
    chArgs,        \* Chain: the call arguments ExecuteChain was called with
    chI,           \* Chain: the loop index i (steps completed so far)
    chProcs,       \* Chain: the external processes started so far, in order
    chOutputs,     \* Chain: the local slice outputs
    chRet,         \* Chain: what ExecuteChain returned
    exIn,          \* Execute's tail: the catalog, tool, finished process and ctx.Err() it starts from
    exOut,         \* Execute's tail: what Execute returned, and whether ParseOutput was invoked
    bdTool,        \* Builder: the tool handed to BuildCommand
    bdArgs,        \* Builder: the argument map handed to BuildCommand
    bdOut,         \* Builder: Pending before the call, then the tokens and the error returned
    psText,        \* Parser: the output handed to ParseOutput
    psCfg,         \* Parser: the config.Output handed to ParseOutput
    psOut,         \* Parser: Pending before the call, then the text and the error returned
    tracer,        \* Tracer: the fields enabled, replayMode, events, replayIdx of the debug.Tracer
    trCalls        \* Tracer: the calls made on the tracer apart from the server's, with what they returned

sbVars == <<sbTokens, sbSecurity, sbResult>>

srvVars == <<pc, nread, lastRead, req, call, procs, ctxErr, out, reqSent, ret, parsed>>

chVars == <<chPc, chCfg, chChain, chArgs, chI, chProcs, chOutputs, chRet>>

exVars == <<exIn, exOut>>

bdVars == <<bdTool, bdArgs, bdOut>>

psVars == <<psText, psCfg, psOut>>

trVars == <<tracer, trCalls>>

vars == <<sbTokens, sbSecurity, sbResult,
          pc, nread, lastRead, req, call, procs, ctxErr, out, reqSent, ret, parsed,
          chPc, chCfg, chChain, chArgs, chI, chProcs, chOutputs, chRet,
          exIn, exOut, bdTool, bdArgs, bdOut,
          psText, psCfg, psOut, tracer, trCalls>>

-----------------------------------------------------------------------------
(* Text helpers (Go's strings package)                                     *)

\* the text of a TLA+ sequence of characters from position i on
Drop(s, i) == SubSeq(s, i + 1, Len(s))

\* strings.HasPrefix
HasPrefix(s, p) == Len(p) <= Len(s) /\ SubSeq(s, 1, Len(p)) = p

\* strings.HasSuffix
HasSuffix(s, p) == Len(p) <= Len(s) /\ SubSeq(s, Len(s) - Len(p) + 1, Len(s)) = p

\* strings.Contains
Contains(s, p) == \E i \in 0..(Len(s) - Len(p)) : SubSeq(s, i + 1, i + Len(p)) = p

\* strings.Split(s, sep) for a one-character separator
RECURSIVE SplitOn(_, _)
SplitOn(s, sep) ==
    IF \A i \in 1..Len(s) : s[i] # sep
    THEN <<s>>
    ELSE LET k == CHOOSE i \in 1..Len(s) : s[i] = sep /\ \A j \in 1..(i - 1) : s[j] # sep
         IN  <<SubSeq(s, 1, k - 1)>> \o SplitOn(Drop(s, k), sep)

\* strings.Join(parts, sep)
RECURSIVE JoinWith(_, _)
JoinWith(parts, sep) ==
    IF Len(parts) = 0 THEN <<>>
    ELSE IF Len(parts) = 1 THEN parts[1]
    ELSE parts[1] \o sep \o JoinWith(Tail(parts), sep)

-----------------------------------------------------------------------------
(* Path helpers (Go's path/filepath package, Unix)                         *)

Slash == "/"

\* the process's working directory, as os.Getwd reports it
Cwd == <<"/", "a">>

RECURSIVE StripTrailingSlashes(_)
StripTrailingSlashes(p) ==
    IF Len(p) > 0 /\ p[Len(p)] = Slash
    THEN StripTrailingSlashes(SubSeq(p, 1, Len(p) - 1))
    ELSE p

\* filepath.Base: the last element of the path
Base(path) ==
    IF Len(path) = 0 THEN <<".">>
    ELSE LET p == StripTrailingSlashes(path)
             parts == SplitOn(p, Slash)
         IN  IF Len(p) = 0 THEN <<Slash>> ELSE parts[Len(parts)]

\* the element stack filepath.Clean builds: "." and empty elements vanish,
\* ".." removes the element before it (or itself, right under the root)
RECURSIVE CleanStack(_, _, _)
CleanStack(elems, stack, rooted) ==
    IF Len(elems) = 0 THEN stack
    ELSE LET e == Head(elems)
             rest == Tail(elems)
         IN  IF e = <<>> \/ e = <<".">>
             THEN CleanStack(rest, stack, rooted)
             ELSE IF e = <<".", ".">>
             THEN IF Len(stack) > 0 /\ stack[Len(stack)] # <<".", ".">>
                  THEN CleanStack(rest, SubSeq(stack, 1, Len(stack) - 1), rooted)
                  ELSE IF rooted
                  THEN CleanStack(rest, stack, rooted)
                  ELSE CleanStack(rest, Append(stack, e), rooted)
             ELSE CleanStack(rest, Append(stack, e), rooted)

\* filepath.Clean
Clean(path) ==
    LET rooted == Len(path) > 0 /\ path[1] = Slash
        stack  == CleanStack(SplitOn(path, Slash), <<>>, rooted)
        body   == JoinWith(stack, <<Slash>>)
    IN  IF rooted THEN <<Slash>> \o body
        ELSE IF Len(body) = 0 THEN <<".">> ELSE body

\* filepath.Abs: a rooted path is cleaned, any other is joined to the working directory
Abs(path) ==
    IF Len(path) > 0 /\ path[1] = Slash
    THEN Clean(path)
    ELSE IF Len(path) = 0 THEN Clean(Cwd) ELSE Clean(Cwd \o <<Slash>> \o path)

-----------------------------------------------------------------------------
(* config: IsPathAllowed, IsCommandBlocked                                 *)

IsPathAllowed(path, allowedPaths) ==
    IF allowedPaths = {} THEN TRUE
    ELSE \E allowed \in allowedPaths : HasPrefix(Abs(path), Abs(allowed))

IsCommandBlocked(command, blockedCommands) == command \in blockedCommands

-----------------------------------------------------------------------------
(* executor: Sandbox                                                       *)

\* the fixed list of substrings hasInjectionPattern looks for; the characters
\* backquote, newline and carriage return are written "BQ", "LF" and "CR"
dangerousPatterns ==
    << <<"$", "(">>, <<"BQ">>, <<"&", "&">>, <<"|", "|">>, <<";">>, <<"|">>,
       <<">">>, <<"<">>, <<">", ">">>, <<"<", "<">>, <<"LF">>, <<"CR">>,
       <<"$", "I", "F", "S">>, <<"$", "{", "I", "F", "S", "}">> >>

hasInjectionPattern(input) ==
    \E i \in 1..Len(dangerousPatterns) : Contains(input, dangerousPatterns[i])

looksLikeFilePath(input) ==
    \/ HasPrefix(input, <<"/">>)
    \/ HasPrefix(input, <<".", "/">>)
    \/ HasPrefix(input, <<".", ".", "/">>)
    \/ Contains(input, <<"/">>)

NoError == [kind |-> "nil", arg |-> <<>>]
\* the value of a result variable before the call it belongs to has returned
Pending == [kind |-> "pending", arg |-> <<>>]
Error(kind, arg) == [kind |-> kind, arg |-> arg]

\* the first element after cmdParts[0] that looks like a path and is not allowed
FirstBadPath(cmdParts, security) ==
    LET bad == {i \in 2..Len(cmdParts) :
                   looksLikeFilePath(cmdParts[i])
                   /\ ~IsPathAllowed(cmdParts[i], security.AllowedPaths)}
    IN  IF bad = {} THEN 0 ELSE CHOOSE i \in bad : \A j \in bad : i <= j

\* ValidateCommand with the injection scan moved before the blocked-command check
ValidateCommand_InjectionFirst(cmdParts, security) ==
    IF Len(cmdParts) = 0 THEN Error("empty command", <<>>)
    ELSE IF \E i \in 1..Len(cmdParts) : hasInjectionPattern(cmdParts[i])
    THEN Error("injection", <<>>)
    ELSE IF IsCommandBlocked(Base(cmdParts[1]), security.BlockedCommands)
    THEN Error("blocked", Base(cmdParts[1]))
    ELSE IF FirstBadPath(cmdParts, security) # 0
    THEN Error("path not allowed", cmdParts[FirstBadPath(cmdParts, security)])
    ELSE NoError

ValidateCommand(cmdParts, security) ==
    IF Len(cmdParts) = 0 THEN Error("empty command", <<>>)
    ELSE IF IsCommandBlocked(Base(cmdParts[1]), security.BlockedCommands)
    THEN Error("blocked", Base(cmdParts[1]))
    ELSE IF \E i \in 1..Len(cmdParts) : hasInjectionPattern(cmdParts[i])
    THEN Error("injection", <<>>)
    ELSE IF FirstBadPath(cmdParts, security) # 0
    THEN Error("path not allowed", cmdParts[FirstBadPath(cmdParts, security)])
    ELSE NoError

-----------------------------------------------------------------------------
(* Values of a call's argument map, as encoding/json decodes them          *)
(* (map[string]interface{}): a string, a bool, a float64 holding an        *)
(* integral number, a list of strings, or nil.  Every value carries all    *)
(* fields so that values of different kinds can be compared.               *)

StringValue(text) == [t |-> "string", s |-> text,  b |-> FALSE, n |-> 0, items |-> <<>>]
BoolValue(bool)   == [t |-> "bool",   s |-> <<>>,  b |-> bool,  n |-> 0, items |-> <<>>]
NumberValue(num)  == [t |-> "number", s |-> <<>>,  b |-> FALSE, n |-> num, items |-> <<>>]
ArrayValue(texts) == [t |-> "array",  s |-> <<>>,  b |-> FALSE, n |-> 0, items |-> texts]
Nil               == [t |-> "nil",    s |-> <<>>,  b |-> FALSE, n |-> 0, items |-> <<>>]

Digits == <<"0", "1", "2", "3", "4", "5", "6", "7", "8", "9">>

DigitValue(c) == (CHOOSE i \in 1..Len(Digits) : Digits[i] = c) - 1

IsDigit(c) == \E i \in 1..Len(Digits) : Digits[i] = c

\* strconv.Itoa
RECURSIVE ItoaNat(_)
ItoaNat(k) == IF k < 10 THEN <<Digits[k + 1]>> ELSE ItoaNat(k \div 10) \o <<Digits[(k % 10) + 1]>>

Itoa(k) == IF k < 0 THEN <<"-">> \o ItoaNat(0 - k) ELSE ItoaNat(k)

RECURSIVE DigitsValue(_, _)
DigitsValue(text, acc) ==
    IF Len(text) = 0 THEN acc ELSE DigitsValue(Tail(text), acc * 10 + DigitValue(Head(text)))

\* strconv.Atoi: an optional sign, then one or more decimal digits
AtoiOk(text) ==
    LET body == IF Len(text) > 0 /\ text[1] \in {"+", "-"} THEN Tail(text) ELSE text
    IN  Len(body) > 0 /\ \A i \in 1..Len(body) : IsDigit(body[i])

Atoi(text) ==
    LET neg  == Len(text) > 0 /\ text[1] = "-"
        body == IF Len(text) > 0 /\ text[1] \in {"+", "-"} THEN Tail(text) ELSE text
    IN  IF neg THEN 0 - DigitsValue(body, 0) ELSE DigitsValue(body, 0)

\* fmt.Sprintf("%v", value)
SprintV(value) ==
    CASE value.t = "string" -> value.s
      [] value.t = "bool"   -> IF value.b THEN <<"t", "r", "u", "e">> ELSE <<"f", "a", "l", "s", "e">>
      [] value.t = "number" -> Itoa(value.n)
      [] value.t = "array"  -> <<"[">> \o JoinWith(value.items, <<" ">>) \o <<"]">>
      [] OTHER              -> <<"<", "n", "i", "l", ">">>

\* fmt.Sprintf("%f", v) of an integral number
SprintF(num) == Itoa(num) \o <<".", "0", "0", "0", "0", "0", "0">>

\* json.Marshal of a value (texts here hold no character that needs escaping)
RECURSIVE JsonTexts(_)
JsonTexts(texts) ==
    IF Len(texts) = 0 THEN <<>>
    ELSE <<"\"">> \o Head(texts) \o <<"\"">>
         \o (IF Len(texts) > 1 THEN <<",">> ELSE <<>>) \o JsonTexts(Tail(texts))

JsonMarshal(value) ==
    CASE value.t = "string" -> <<"\"">> \o value.s \o <<"\"">>
      [] value.t = "bool"   -> SprintV(value)
      [] value.t = "number" -> Itoa(value.n)
      [] value.t = "array"  -> <<"[">> \o JsonTexts(value.items) \o <<"]">>
      [] OTHER              -> <<"n", "u", "l", "l">>

-----------------------------------------------------------------------------
(* executor: CommandBuilder                                                *)

\* a call's return: the value and the error (NoError when it succeeded)
Ok(value)  == [val |-> value, err |-> NoError]
Fail(kind, arg) == [val |-> <<>>, err |-> Error(kind, arg)]

\* formatValue accepting an integer only as a Go int or a string, not as the
\* float64 a JSON number decodes to
formatValue_NoFloat64(argType, value) ==
    CASE argType = "string" -> Ok(IF value.t = "string" THEN value.s ELSE SprintV(value))
      [] argType = "integer" ->
            CASE value.t = "string" ->
                    IF AtoiOk(value.s) THEN Ok(Itoa(Atoi(value.s)))
                    ELSE Fail("invalid integer", value.s)
              [] OTHER -> Fail("expected integer", <<>>)
      [] argType = "float" ->
            CASE value.t = "number" -> Ok(SprintF(value.n))
              [] value.t = "string" ->
                    IF AtoiOk(value.s) THEN Ok(SprintF(Atoi(value.s)))
                    ELSE Fail("invalid float", value.s)
              [] OTHER -> Fail("expected float", <<>>)
      [] argType = "object" -> Ok(JsonMarshal(value))
      [] OTHER -> Ok(SprintV(value))

formatValue(argType, value) ==
    CASE argType = "string" -> Ok(IF value.t = "string" THEN value.s ELSE SprintV(value))
      [] argType = "integer" ->
            CASE value.t = "number" -> Ok(Itoa(value.n))
              [] value.t = "string" ->
                    IF AtoiOk(value.s) THEN Ok(Itoa(Atoi(value.s)))
                    ELSE Fail("invalid integer", value.s)
              [] OTHER -> Fail("expected integer", <<>>)
      [] argType = "float" ->
            CASE value.t = "number" -> Ok(SprintF(value.n))
              [] value.t = "string" ->
                    IF AtoiOk(value.s) THEN Ok(SprintF(Atoi(value.s)))
                    ELSE Fail("invalid float", value.s)
              [] OTHER -> Fail("expected float", <<>>)
      [] argType = "object" -> Ok(JsonMarshal(value))
      [] OTHER -> Ok(SprintV(value))

\* the tokens of the items of an array argument
RECURSIVE arrayFlag(_, _)
arrayFlag(flag, items) ==
    IF Len(items) = 0 THEN <<>>
    ELSE (IF Contains(flag, <<"=">>) THEN <<flag \o Head(items)>> ELSE <<flag, Head(items)>>)
         \o arrayFlag(flag, Tail(items))

\* buildFlag treating a boolean like any other value: the flag, then its text
buildFlag_BooleanAsText(arg, value) ==
    CASE arg.Type = "array" ->
            Ok(arrayFlag(arg.Flag,
                         IF value.t = "array" THEN value.items
                         ELSE <<formatValue("string", value).val>>))
      [] OTHER ->
            LET f == formatValue(arg.Type, value)
            IN  IF f.err # NoError THEN f
                ELSE IF arg.Flag = <<>> THEN Ok(<<f.val>>)
                ELSE IF Contains(arg.Flag, <<"=">>) THEN Ok(<<arg.Flag \o f.val>>)
                ELSE Ok(<<arg.Flag, f.val>>)

buildFlag(arg, value) ==
    CASE arg.Type = "boolean" ->
            IF value.t # "bool" THEN Fail("expected boolean", <<>>)
            ELSE IF value.b /\ arg.Flag # <<>> THEN Ok(<<arg.Flag>>)
            ELSE Ok(<<>>)
      [] arg.Type = "array" ->
            Ok(arrayFlag(arg.Flag,
                         IF value.t = "array" THEN value.items
                         ELSE <<formatValue("string", value).val>>))
      [] OTHER ->
            LET f == formatValue(arg.Type, value)
            IN  IF f.err # NoError THEN f
                ELSE IF arg.Flag = <<>> THEN Ok(<<f.val>>)
                ELSE IF Contains(arg.Flag, <<"=">>) THEN Ok(<<arg.Flag \o f.val>>)
                ELSE Ok(<<arg.Flag, f.val>>)

\* strings.TrimPrefix, strings.TrimSuffix
TrimPrefix(text, p) == IF HasPrefix(text, p) THEN Drop(text, Len(p)) ELSE text
TrimSuffix(text, p) == IF HasSuffix(text, p) THEN SubSeq(text, 1, Len(text) - Len(p)) ELSE text

\* strings.Trim(text, cutset) for a one-character cutset
RECURSIVE TrimChar(_, _)
TrimChar(text, c) ==
    IF Len(text) > 0 /\ text[1] = c THEN TrimChar(Tail(text), c)
    ELSE IF Len(text) > 0 /\ text[Len(text)] = c THEN TrimChar(SubSeq(text, 1, Len(text) - 1), c)
    ELSE text

\* evaluateCondition letting a condition on a variable that is not supplied hold
evaluateCondition_MissingHolds(condition, args) ==
    LET parts == SplitOn(condition, " ")
    IN  IF Len(parts) # 3 THEN FALSE
        ELSE LET varName  == TrimPrefix(TrimSuffix(parts[1], <<"}">>), <<"$", "{">>)
                 operator == parts[2]
                 expected == TrimChar(parts[3], "\"")
             IN  IF varName \notin DOMAIN args THEN TRUE
                 ELSE IF operator = <<"=", "=">> THEN SprintV(args[varName]) = expected
                 ELSE IF operator = <<"!", "=">> THEN SprintV(args[varName]) # expected
                 ELSE FALSE

evaluateCondition(condition, args) ==
    LET parts == SplitOn(condition, " ")
    IN  IF Len(parts) # 3 THEN FALSE
        ELSE LET varName  == TrimPrefix(TrimSuffix(parts[1], <<"}">>), <<"$", "{">>)
                 operator == parts[2]
                 expected == TrimChar(parts[3], "\"")
             IN  IF varName \notin DOMAIN args THEN FALSE
                 ELSE IF operator = <<"=", "=">> THEN SprintV(args[varName]) = expected
                 ELSE IF operator = <<"!", "=">> THEN SprintV(args[varName]) # expected
                 ELSE FALSE

\* sort.Slice by Position: an insertion sort for the short lists of a tool
\* (Go sorts slices of up to 12 elements by insertion), so equal positions
\* keep their declaration order
RECURSIVE insertByPosition(_, _)
insertByPosition(sorted, arg) ==
    IF Len(sorted) = 0 THEN <<arg>>
    ELSE IF arg.Position < sorted[Len(sorted)].Position
    THEN Append(insertByPosition(SubSeq(sorted, 1, Len(sorted) - 1), arg), sorted[Len(sorted)])
    ELSE Append(sorted, arg)

RECURSIVE sortByPosition(_, _)
sortByPosition(arguments, sorted) ==
    IF Len(arguments) = 0 THEN sorted
    ELSE sortByPosition(Tail(arguments), insertByPosition(sorted, Head(arguments)))

\* extractPositionalArgs without the sort: the positional arguments as declared
extractPositionalArgs_Unsorted(arguments) ==
    SelectSeq(arguments, LAMBDA a : a.Positional)

extractPositionalArgs(arguments) ==
    sortByPosition(SelectSeq(arguments, LAMBDA a : a.Positional), <<>>)

\* the value of an argument: supplied, else the default, else missing
resolveValue(arg, args) ==
    IF arg.Name \in DOMAIN args THEN args[arg.Name]
    ELSE IF arg.Default # Nil THEN arg.Default
    ELSE Nil

\* does the argument have no supplied value and no default
unresolved(arg, args) == arg.Name \notin DOMAIN args /\ arg.Default = Nil

\* the loop over the positional arguments (builder.go lines 37-54)
RECURSIVE buildPositional(_, _, _)
buildPositional(positional, args, cmd) ==
    IF Len(positional) = 0 THEN Ok(cmd)
    ELSE LET arg == Head(positional)
         IN  IF unresolved(arg, args)
             THEN IF arg.Required THEN Fail("required argument not provided", arg.Name)
                  ELSE buildPositional(Tail(positional), args, cmd)
             ELSE LET f == formatValue(arg.Type, resolveValue(arg, args))
                  IN  IF f.err # NoError THEN Fail("failed to format", arg.Name)
                      ELSE buildPositional(Tail(positional), args, Append(cmd, f.val))

\* buildFlags evaluating the condition before it resolves the value
RECURSIVE buildFlags_ConditionFirst(_, _, _)
buildFlags_ConditionFirst(arguments, args, cmd) ==
    IF Len(arguments) = 0 THEN Ok(cmd)
    ELSE LET arg == Head(arguments)
         IN  IF arg.Positional THEN buildFlags_ConditionFirst(Tail(arguments), args, cmd)
             ELSE IF arg.When # <<>> /\ ~evaluateCondition(arg.When, args)
             THEN buildFlags_ConditionFirst(Tail(arguments), args, cmd)
             ELSE IF unresolved(arg, args)
             THEN IF arg.Required THEN Fail("required argument not provided", arg.Name)
                  ELSE buildFlags_ConditionFirst(Tail(arguments), args, cmd)
             ELSE LET f == buildFlag(arg, resolveValue(arg, args))
                  IN  IF f.err # NoError THEN Fail("failed to build flag", arg.Name)
                      ELSE buildFlags_ConditionFirst(Tail(arguments), args, cmd \o f.val)

\* the loop over the flag arguments (builder.go lines 57-84)
RECURSIVE buildFlags(_, _, _)
buildFlags(arguments, args, cmd) ==
    IF Len(arguments) = 0 THEN Ok(cmd)
    ELSE LET arg == Head(arguments)
         IN  IF arg.Positional THEN buildFlags(Tail(arguments), args, cmd)
             ELSE IF unresolved(arg, args)
             THEN IF arg.Required THEN Fail("required argument not provided", arg.Name)
                  ELSE buildFlags(Tail(arguments), args, cmd)
             ELSE IF arg.When # <<>> /\ ~evaluateCondition(arg.When, args)
             THEN buildFlags(Tail(arguments), args, cmd)
             ELSE LET f == buildFlag(arg, resolveValue(arg, args))
                  IN  IF f.err # NoError THEN Fail("failed to build flag", arg.Name)
                      ELSE buildFlags(Tail(arguments), args, cmd \o f.val)

BuildCommand(cfg, tool, args) ==
    LET base == (IF cfg.Settings.Command # <<>> THEN <<cfg.Settings.Command>> ELSE <<>>)
                \o (IF tool.Command # <<>> THEN <<tool.Command>> ELSE <<>>)
        pos  == buildPositional(extractPositionalArgs(tool.Arguments), args, base)
    IN  IF pos.err # NoError THEN pos ELSE buildFlags(tool.Arguments, args, pos.val)

-----------------------------------------------------------------------------
(* parser: ParseOutput.  The outputs drawn for the external process hold   *)
(* digits, letters and newlines; of those texts the JSON documents are the *)
(* decimal numbers without a leading zero.                                 *)

IsJSON(text) ==
    /\ Len(text) > 0
    /\ \A i \in 1..Len(text) : IsDigit(text[i])
    /\ (Len(text) > 1 => text[1] # "0")

\* json.Unmarshal, then json.MarshalIndent of the decoded value
parseJSON(output) ==
    IF IsJSON(output) THEN Ok(Itoa(DigitsValue(output, 0))) ELSE Fail("invalid JSON", <<>>)

\* strings.TrimSpace: the white space of these texts is the blank, the
\* newline and the carriage return
RECURSIVE TrimSpace(_)
TrimSpace(text) ==
    IF Len(text) > 0 /\ text[1] \in {" ", "LF", "CR"} THEN TrimSpace(Tail(text))
    ELSE IF Len(text) > 0 /\ text[Len(text)] \in {" ", "LF", "CR"}
    THEN TrimSpace(SubSeq(text, 1, Len(text) - 1))
    ELSE text

\* json.MarshalIndent(texts, "", "  ") of a list of texts
RECURSIVE IndentedItems(_)
IndentedItems(texts) ==
    IF Len(texts) = 0 THEN <<>>
    ELSE <<"LF", " ", " ", "\"">> \o Head(texts) \o <<"\"">>
         \o (IF Len(texts) > 1 THEN <<",">> ELSE <<>>) \o IndentedItems(Tail(texts))

MarshalIndentTexts(texts) ==
    IF Len(texts) = 0 THEN <<"[", "]">>
    ELSE <<"[">> \o IndentedItems(texts) \o <<"LF", "]">>

\* the loop of parseLines: the trimmed lines that are not empty
RECURSIVE filterLines(_)
filterLines(lines) ==
    IF Len(lines) = 0 THEN <<>>
    ELSE (IF TrimSpace(Head(lines)) # <<>> THEN <<TrimSpace(Head(lines))>> ELSE <<>>)
         \o filterLines(Tail(lines))

parseLines(output) ==
    Ok(MarshalIndentTexts(filterLines(SplitOn(TrimSpace(output), "LF"))))

\* regexp.Compile, for patterns of literal characters and capturing groups:
\* the literal the pattern matches and the part of it each group captures
RECURSIVE regexpScan(_, _, _, _)
regexpScan(pattern, lit, open, groups) ==
    IF Len(pattern) = 0 THEN [ok |-> open = <<>>, lit |-> lit, groups |-> groups]
    ELSE CASE Head(pattern) = "(" ->
                regexpScan(Tail(pattern), lit, Append(open, Len(groups) + 1),
                           Append(groups, [from |-> Len(lit) + 1, to |-> 0]))
           [] Head(pattern) = ")" ->
                IF open = <<>> THEN [ok |-> FALSE, lit |-> lit, groups |-> groups]
                ELSE regexpScan(Tail(pattern), lit, SubSeq(open, 1, Len(open) - 1),
                                [groups EXCEPT ![open[Len(open)]].to = Len(lit)])
           [] OTHER -> regexpScan(Tail(pattern), Append(lit, Head(pattern)), open, groups)

regexpCompile(pattern) == regexpScan(pattern, <<>>, <<>>, <<>>)

\* len(re.FindAllStringSubmatch(output, -1)): the leftmost matches that do
\* not overlap (an empty literal matches at every place)
RECURSIVE countMatches(_, _)
countMatches(output, lit) ==
    IF lit = <<>> THEN Len(output) + 1
    ELSE IF Len(output) < Len(lit) THEN 0
    ELSE IF HasPrefix(output, lit) THEN 1 + countMatches(Drop(output, Len(lit)), lit)
    ELSE countMatches(Tail(output), lit)

\* one element of the matches: the full match, then what each group captured
submatches(re) ==
    <<re.lit>> \o [g \in 1..Len(re.groups) |-> SubSeq(re.lit, re.groups[g].from, re.groups[g].to)]

\* convertType for the group types integer and string: Sscanf with %d reads
\* an optional sign and the digits the text starts with
convertType(value, typeName) ==
    LET body == IF Len(value) > 0 /\ value[1] \in {"+", "-"} THEN Tail(value) ELSE value
        n    == CHOOSE k \in 0..Len(body) :
                    /\ \A i \in 1..k : IsDigit(body[i])
                    /\ k < Len(body) => ~IsDigit(body[k + 1])
    IN  IF typeName = "integer" /\ n > 0
        THEN NumberValue(Atoi(SubSeq(value, 1, Len(value) - Len(body) + n)))
        ELSE StringValue(value)

\* the order encoding/json writes the keys of a map in
CharOrder == <<"0", "1", "2", "3", "4", "5", "6", "7", "8", "9", "g", "m", "n", "o", "p", "r", "u">>

RECURSIVE TextLess(_, _)
TextLess(a, b) ==
    IF Len(b) = 0 THEN FALSE
    ELSE IF Len(a) = 0 THEN TRUE
    ELSE IF Head(a) = Head(b) THEN TextLess(Tail(a), Tail(b))
    ELSE (CHOOSE i \in 1..Len(CharOrder) : CharOrder[i] = Head(a))
         < (CHOOSE i \in 1..Len(CharOrder) : CharOrder[i] = Head(b))

\* lines 88-104 of parseRegex and the indented encoding of the map: the
\* object built for a match, keyed by the declared groups or by group1, group2, ...
resultObject(match, groups) ==
    LET keyed == IF Len(groups) > 0
                 THEN [i \in {j \in 1..Len(groups) : j + 1 <= Len(match)} |->
                          [key |-> groups[i].Name, value |-> convertType(match[i + 1], groups[i].Type)]]
                 ELSE [i \in 1..(Len(match) - 1) |->
                          [key |-> <<"g", "r", "o", "u", "p">> \o Itoa(i), value |-> StringValue(match[i + 1])]]
        keys   == {keyed[i].key : i \in DOMAIN keyed}
        last(k) == CHOOSE i \in DOMAIN keyed :
                      keyed[i].key = k /\ \A j \in DOMAIN keyed : keyed[j].key = k => j <= i
        sorted == CHOOSE q \in [1..Cardinality(keys) -> keys] :
                      \A i, j \in 1..Cardinality(keys) : i < j => TextLess(q[i], q[j])
        entries == [i \in 1..Cardinality(keys) |->
                       <<"LF", " ", " ", " ", " ", "\"">> \o sorted[i] \o <<"\"", ":", " ">>
                       \o JsonMarshal(keyed[last(sorted[i])].value)]
    IN  IF keys = {} THEN <<"{", "}">>
        ELSE <<"{">> \o JoinWith(entries, <<",">>) \o <<"LF", " ", " ", "}">>

\* json.MarshalIndent(results, "", "  "): a nil slice is encoded as null
MarshalIndentResults(results) ==
    IF Len(results) = 0 THEN <<"n", "u", "l", "l">>
    ELSE <<"[">> \o JoinWith([i \in 1..Len(results) |-> <<"LF", " ", " ">> \o results[i]], <<",">>)
         \o <<"LF", "]">>

parseRegex(output, pattern, groups) ==
    IF pattern = <<>> THEN Fail("regex pattern is required", <<>>)
    ELSE LET re == regexpCompile(pattern)
         IN  IF ~re.ok THEN Fail("invalid regex pattern", pattern)
             ELSE Ok(MarshalIndentResults([i \in 1..countMatches(output, re.lit) |->
                                              resultObject(submatches(re), groups)]))

ParseOutput(output, outputCfg) ==
    CASE outputCfg.Type = "json" -> parseJSON(output)
      [] outputCfg.Type = "lines" -> parseLines(output)
      [] outputCfg.Type = "regex" -> parseRegex(output, outputCfg.Pattern, outputCfg.Groups)
      [] OTHER -> Ok(output)

-----------------------------------------------------------------------------
(* The catalogs the server is constructed with (config.Config)             *)

Argument(name, type, required, flag, positional, position) ==
    [Name |-> name, Type |-> type, Required |-> required, Flag |-> flag,
     Default |-> Nil, When |-> <<>>, Positional |-> positional, Position |-> position]

GitConfig ==
    [Metadata |-> [Name |-> <<"g">>],
     Settings |-> [Command |-> <<"g", "i", "t">>, WorkingDir |-> <<".">>,
                   Timeout |-> 0, Environment |-> <<>>],
     Security |-> [BlockedCommands |-> {<<"r", "m">>}, AllowedPaths |-> {},
                   MaxOutputSize |-> 3, DisableInjectionCheck |-> FALSE],
     Tools |-> << [Name |-> <<"s", "t">>, Command |-> <<"s", "t">>,
                   Arguments |-> << Argument(<<"s">>, "boolean", FALSE, <<"-", "s">>, FALSE, 0),
                                    Argument(<<"b">>, "boolean", FALSE, <<"-", "b">>, FALSE, 0) >>,
                   Output |-> [Type |-> "raw"], Chain |-> <<>>] >>]

FsConfig ==
    [Metadata |-> [Name |-> <<"f">>],
     Settings |-> [Command |-> <<"l", "s">>, WorkingDir |-> <<"/", "a">>,
                   Timeout |-> 5, Environment |-> << <<"K", "=", "v">> >>],
     Security |-> [BlockedCommands |-> {}, AllowedPaths |-> {<<"/", "a">>},
                   MaxOutputSize |-> 2, DisableInjectionCheck |-> TRUE],
     Tools |-> << [Name |-> <<"l", "s">>, Command |-> <<>>,
                   Arguments |-> << Argument(<<"p">>, "string", TRUE, <<>>, TRUE, 1) >>,
                   Output |-> [Type |-> "json"], Chain |-> <<>>] >>]

\* a catalog of the same name as GitConfig, declaring a tool of the same name;
\* the tool declares chain steps
HgConfig ==
    [Metadata |-> [Name |-> <<"g">>],
     Settings |-> [Command |-> <<"h", "g">>, WorkingDir |-> <<"/", "a">>,
                   Timeout |-> 5, Environment |-> <<>>],
     Security |-> [BlockedCommands |-> {}, AllowedPaths |-> {},
                   MaxOutputSize |-> 2, DisableInjectionCheck |-> TRUE],
     Tools |-> << [Name |-> <<"s", "t">>, Command |-> <<"s", "t">>,
                   Arguments |-> << Argument(<<"s">>, "boolean", FALSE, <<"-", "s">>, FALSE, 0),
                                    Argument(<<"b">>, "boolean", FALSE, <<"-", "b">>, FALSE, 0) >>,
                   Output |-> [Type |-> "raw"],
                   Chain |-> << [Command |-> <<"l", "o", "g">>, Arguments |-> <<>>] >>] >>]

Configs == <<GitConfig, FsConfig, HgConfig>>

-----------------------------------------------------------------------------
(* debug: Tracer                                                           *)

\* a TraceEvent: its direction and type, and the read (seq) its data and
\* metadata belong to; the timestamp is left out
TraceEvent(direction, type, seq) == [Direction |-> direction, Type |-> type, seq |-> seq]

NewTracer(enabled) ==
    [enabled |-> enabled, replayMode |-> FALSE, events |-> <<>>, replayIdx |-> 0]

NewReplayTracer(events) ==
    [enabled |-> TRUE, replayMode |-> TRUE, events |-> events, replayIdx |-> 0]

\* addEvent appending in replay mode too
addEvent_InReplayToo(t, event) == [t EXCEPT !.events = Append(@, event)]

addEvent(t, event) ==
    IF t.replayMode THEN t ELSE [t EXCEPT !.events = Append(@, event)]

TraceIncoming(t, msgType, seq) ==
    IF ~t.enabled THEN t ELSE addEvent(t, TraceEvent("in", msgType, seq))

TraceOutgoing(t, msgType, seq) ==
    IF ~t.enabled THEN t ELSE addEvent(t, TraceEvent("out", msgType, seq))

TraceCommand(t, seq) ==
    IF ~t.enabled THEN t ELSE addEvent(t, TraceEvent("internal", "command", seq))

TraceCommandOutput(t, seq) ==
    IF ~t.enabled THEN t ELSE addEvent(t, TraceEvent("internal", "output", seq))

\* the tracer after the call, and the pair (event, ok) the call returns
GetNextReplayEvent(t) ==
    IF ~t.replayMode \/ t.replayIdx >= Len(t.events)
    THEN [tracer |-> t, event |-> TraceEvent("", "", 0), ok |-> FALSE]
    ELSE [tracer |-> [t EXCEPT !.replayIdx = @ + 1], event |-> t.events[t.replayIdx + 1], ok |-> TRUE]

-----------------------------------------------------------------------------
(* mcp: protocol                                                           *)

ParseError     == -32700
InvalidRequest == -32600
MethodNotFound == -32601
InvalidParams  == -32602
InternalError  == -32603

\* the timeout Execute uses when the catalog sets none, in seconds
DefaultTimeout == 30

\* a request id: absent, or the number the client gave
NoId == <<>>

NoParams == [state |-> "absent", name |-> <<>>, arguments |-> <<>>]

NoRequest == [id |-> NoId, method |-> "", params |-> NoParams]

\* the bodies of the responses (Response.Result or Response.Error)
ResultResponse(id, body, text, failure, isError) ==
    [jsonrpc |-> "2.0", id |-> id, kind |-> "result", code |-> 0, message |-> "", name |-> <<>>,
     body |-> body, text |-> text, failure |-> failure, isError |-> isError]

\* SendError answering with a null id, whatever the request's id
ErrorResponse_NullId(id, code, message, name) ==
    [jsonrpc |-> "2.0", id |-> NoId, kind |-> "error", code |-> code, message |-> message, name |-> name,
     body |-> "", text |-> <<>>, failure |-> NoError, isError |-> FALSE]

ErrorResponse(id, code, message, name) ==
    [jsonrpc |-> "2.0", id |-> id, kind |-> "error", code |-> code, message |-> message, name |-> name,
     body |-> "", text |-> <<>>, failure |-> NoError, isError |-> FALSE]

\* the texts of the error messages; the name a message ends with is kept apart
MsgInvalidParameters == "Invalid parameters"
MsgToolNotFound      == "Tool not found: "
MsgMethodNotFound    == "Method not found: "
MsgConfigNotFound    == "Configuration not found"
MsgHandlerError      == "failed to write response"

\* what one SendResponse call can do to the output stream: write the line,
\* fail before any byte of it, or fail on the newline after the data
WriteOutcomes == {"ok", "failData", "failNewline"}

\* the line SendResponse leaves on the output: the read it answers, whether it
\* holds a result or an error, and whether its newline was written
Line(resp, seq, complete) ==
    [seq |-> seq, kind |-> resp.kind, complete |-> complete]

\* Protocol.SendResponse: the output after the call with outcome w
SendResponse(output, resp, seq, w) ==
    IF w = "failData" THEN output ELSE Append(output, Line(resp, seq, w = "ok"))

-----------------------------------------------------------------------------
(* mcp: Server                                                             *)

\* the number of requests read in one run
MaxRequests == 2

FullName(cfg, tool) == cfg.Metadata.Name \o <<"_">> \o tool.Name

\* the places <<catalog, tool>> of the declared tools
ToolPlaces ==
    UNION {{<<i, j>> : j \in 1..Len(Configs[i].Tools)} : i \in 1..Len(Configs)}

PlaceName(pl) == FullName(Configs[pl[1]], Configs[pl[1]].Tools[pl[2]])

Before(p, q) == p[1] < q[1] \/ (p[1] = q[1] /\ p[2] < q[2])

\* NewServer's index: the tool each full name maps to (a later declaration
\* of the same full name replaces an earlier one)
toolsIndex ==
    [name \in {PlaceName(pl) : pl \in ToolPlaces} |->
        CHOOSE pl \in ToolPlaces :
            /\ PlaceName(pl) = name
            /\ \A q \in ToolPlaces : PlaceName(q) = name => (q = pl \/ Before(q, pl))]

\* handleToolCall's search: the first catalog declaring the full name, 0 if none
findConfig(name) ==
    LET hits == {pl[1] : pl \in {q \in ToolPlaces : PlaceName(q) = name}}
    IN  IF hits = {} THEN 0 ELSE CHOOSE i \in hits : \A k \in hits : i <= k

NoCall == [cfg |-> 0, place |-> <<0, 0>>, args |-> <<>>]

CallCfg  == Configs[call.cfg]
CallTool == Configs[call.place[1]].Tools[call.place[2]]

\* the timeout Execute resolves
resolveTimeout(cfg) == IF cfg.Settings.Timeout = 0 THEN DefaultTimeout ELSE cfg.Settings.Timeout

\* a time.Duration of whole seconds under %v
FormatDuration(seconds) == Itoa(seconds) \o <<"s">>

\* the working directory Execute resolves
resolveWorkingDir(cfg) ==
    IF cfg.Settings.WorkingDir = <<".">> \/ cfg.Settings.WorkingDir = <<>>
    THEN Cwd ELSE cfg.Settings.WorkingDir

\* os.Environ() of the server
Environ == << <<"H", "=", "h">> >>

NoRet == [state |-> "pending", output |-> <<>>, err |-> NoError]
Return(output, err) == [state |-> "returned", output |-> output, err |-> err]

\* an external process: running, exited by itself, killed at the deadline,
\* never started ("failed"), or finished and collected ("done")
Process(seq, tokens, dir, env, state) ==
    [seq |-> seq, tokens |-> tokens, dir |-> dir, env |-> env, state |-> state,
     exit |-> 0, stdout |-> <<>>, stderr |-> <<>>]

\* a process whose Execute call has returned and whose request is over: the
\* command and the buffers are gone
Collected(proc) ==
    [proc EXCEPT !.seq = 0, !.state = "done", !.exit = 0, !.stdout = <<>>, !.stderr = <<>>,
                 !.tokens = <<>>, !.dir = <<>>, !.env = <<>>]

RECURSIVE CollectAll(_)
CollectAll(ps) == IF Len(ps) = 0 THEN <<>> ELSE <<Collected(Head(ps))>> \o CollectAll(Tail(ps))

CurrentProc == procs[Len(procs)]

TruncationMarker ==
    <<"LF", ".", ".", ".", " ", "(", "o", "u", "t", "p", "u", "t", " ",
      "t", "r", "u", "n", "c", "a", "t", "e", "d", ")">>

\* combinedOutput cutting the text without appending the marker
combinedOutput_NoMarker(proc, security) ==
    LET output == proc.stdout \o (IF proc.stderr # <<>> THEN <<"LF">> \o proc.stderr ELSE <<>>)
    IN  IF security.MaxOutputSize > 0 /\ Len(output) > security.MaxOutputSize
        THEN SubSeq(output, 1, security.MaxOutputSize)
        ELSE output

\* lines 88-97 of Execute: stdout, then stderr after a newline, cut to MaxOutputSize
combinedOutput(proc, security) ==
    LET output == proc.stdout \o (IF proc.stderr # <<>> THEN <<"LF">> \o proc.stderr ELSE <<>>)
    IN  IF security.MaxOutputSize > 0 /\ Len(output) > security.MaxOutputSize
        THEN SubSeq(output, 1, security.MaxOutputSize) \o TruncationMarker
        ELSE output

\* executeResult handing back the captured output together with the timeout error
executeResult_OutputOnTimeout(cfg, tool, proc, deadlineExceeded) ==
    LET output == combinedOutput(proc, cfg.Security)
    IN  IF deadlineExceeded
        THEN [ret |-> Return(output, Error("command timed out", FormatDuration(resolveTimeout(cfg)))),
              parsed |-> FALSE]
        ELSE IF proc.state = "failed"
        THEN [ret |-> Return(output, Error("command failed", <<>>)), parsed |-> FALSE]
        ELSE IF proc.exit # 0
        THEN [ret |-> Return(output, Error("command failed with exit code", Itoa(proc.exit))),
              parsed |-> FALSE]
        ELSE LET p == ParseOutput(output, tool.Output)
             IN  [ret |-> Return(IF p.err # NoError THEN output ELSE p.val, NoError),
                  parsed |-> TRUE]

\* executeResult returning the parser's error to the caller
executeResult_ParseFailureFails(cfg, tool, proc, deadlineExceeded) ==
    IF deadlineExceeded
    THEN [ret |-> Return(<<>>, Error("command timed out", FormatDuration(resolveTimeout(cfg)))),
          parsed |-> FALSE]
    ELSE LET output == combinedOutput(proc, cfg.Security)
         IN  IF proc.state = "failed"
             THEN [ret |-> Return(output, Error("command failed", <<>>)), parsed |-> FALSE]
             ELSE IF proc.exit # 0
             THEN [ret |-> Return(output, Error("command failed with exit code", Itoa(proc.exit))),
                   parsed |-> FALSE]
             ELSE LET p == ParseOutput(output, tool.Output)
                  IN  [ret |-> Return(IF p.err # NoError THEN output ELSE p.val, p.err),
                       parsed |-> TRUE]

\* lines 83-114 of Execute: what it returns once cmd.Run has returned
executeResult(cfg, tool, proc, deadlineExceeded) ==
    IF deadlineExceeded
    THEN [ret |-> Return(<<>>, Error("command timed out", FormatDuration(resolveTimeout(cfg)))),
          parsed |-> FALSE]
    ELSE LET output == combinedOutput(proc, cfg.Security)
         IN  IF proc.state = "failed"
             THEN [ret |-> Return(output, Error("command failed", <<>>)), parsed |-> FALSE]
             ELSE IF proc.exit # 0
             THEN [ret |-> Return(output, Error("command failed with exit code", Itoa(proc.exit))),
                   parsed |-> FALSE]
             ELSE LET p == ParseOutput(output, tool.Output)
                  IN  [ret |-> Return(IF p.err # NoError THEN output ELSE p.val, NoError),
                       parsed |-> TRUE]

\* toolNotFound answering in-band, the way an execution failure is answered
toolNotFound_InBand(id, name) ==
    ResultResponse(id, "tools/call", <<>>, Error("tool not found", name), TRUE)

\* lines 237-238 of handleToolCall: the answer to a name that is no registered tool
toolNotFound(id, name) == ErrorResponse(id, InvalidParams, MsgToolNotFound, name)

\* methodNotFound with the code of an invalid request
methodNotFound_InvalidRequest(id, method) ==
    [ErrorResponse(id, InvalidRequest, MsgMethodNotFound, <<>>) EXCEPT !.body = method]

\* lines 136-137 of handleRequest: the answer to a method that has no handler
methodNotFound(id, method) ==
    [ErrorResponse(id, MethodNotFound, MsgMethodNotFound, <<>>) EXCEPT !.body = method]

\* toolCallResponse turning an execution failure into a JSON-RPC error object
toolCallResponse_ErrorObject(id, r) ==
    IF r.err # NoError
    THEN ErrorResponse(id, InternalError, "Command failed", <<>>)
    ELSE ResultResponse(id, "tools/call", r.output, NoError, FALSE)

\* lines 268-303 of handleToolCall: the response for what Execute returned
toolCallResponse(id, r) ==
    IF r.err # NoError
    THEN ResultResponse(id, "tools/call", <<>>, r.err, TRUE)
    ELSE ResultResponse(id, "tools/call", r.output, NoError, FALSE)

\* a handler sends resp and returns SendResponse's error to Run, which then
\* (lines 103-116) sends an InternalError response and goes on
\* t is the tracer as the handler leaves it; Run traces the error it sends
Reply(resp, t) ==
    \E w \in WriteOutcomes :
        IF w = "ok"
        THEN /\ out' = SendResponse(out, resp, nread, w)
             /\ reqSent' = Append(reqSent, resp)
             /\ tracer' = t
        ELSE \E w2 \in WriteOutcomes :
                LET e == ErrorResponse(req.id, InternalError, MsgHandlerError, <<>>)
                IN  /\ out' = SendResponse(SendResponse(out, resp, nread, w), e, nread, w2)
                    /\ reqSent' = reqSent \o <<resp, e>>
                    /\ tracer' = TraceOutgoing(t, "error", nread)

-----------------------------------------------------------------------------
(* The requests a client sends                                             *)

KnownMethods ==
    {"initialize", "tools/list", "tools/call", "prompts/list", "resources/list",
     "notifications/initialized"}

Methods == KnownMethods \cup {"ping"}

\* the names a tools/call carries: the registered ones, an unknown one, none
CallNames == DOMAIN toolsIndex \cup {<<"f", "_", "x">>, <<>>}

\* the argument maps a tools/call carries
CallArguments ==
    { <<>>,
      (<<"p">> :> StringValue(<<"/", "a", "/", "x">>)),
      (<<"p">> :> StringValue(<<"/", "b">>)),
      (<<"p">> :> StringValue(<<"a", ";">>)),
      (<<"s">> :> BoolValue(TRUE)) @@ (<<"b">> :> BoolValue(TRUE)),
      (<<"s">> :> StringValue(<<"x">>)) }

ToolCallParams ==
    {NoParams, [NoParams EXCEPT !.state = "malformed"]}
    \cup {[state |-> "ok", name |-> n, arguments |-> a] : n \in CallNames, a \in CallArguments}

OtherParams == {NoParams, [NoParams EXCEPT !.state = "malformed"], [NoParams EXCEPT !.state = "ok"]}

\* the requests the k-th read can return: the id is absent or is k
Requests(k) ==
    {[id |-> i, method |-> "tools/call", params |-> p] : i \in {NoId, <<k>>}, p \in ToolCallParams}
    \cup {[id |-> i, method |-> "initialize", params |-> p] : i \in {NoId, <<k>>}, p \in OtherParams}
    \cup {[id |-> i, method |-> m, params |-> NoParams] :
             i \in {NoId, <<k>>}, m \in Methods \ {"tools/call", "initialize"}}

\* what the external process can leave on its standard output and standard error
Stdouts == {<<>>, <<"1">>, <<"w", "x", "y", "z">>}
Stderrs == {<<>>, <<"e">>}
ExitCodes == {0, 1}

-----------------------------------------------------------------------------
(* Server.Run and the handlers                                             *)

ServerInit ==
    /\ pc = "await"
    /\ nread = 0
    /\ lastRead = "none"
    /\ req = NoRequest
    /\ call = NoCall
    /\ procs = <<>>
    /\ ctxErr = FALSE
    /\ out = <<>>
    /\ reqSent = <<>>
    /\ ret = NoRet
    /\ parsed = FALSE

\* ReadRequest returns io.EOF: Run returns nil
ReadEOF ==
    /\ pc = "await"
    /\ pc' = "closed"
    /\ lastRead' = "eof"
    /\ UNCHANGED <<nread, req, call, procs, ctxErr, out, reqSent, ret, parsed, sbVars, chVars, exVars, bdVars, psVars, trVars>>

\* ReadFailure ending the loop the way a clean end of the input does
ReadFailure_Terminates ==
    /\ pc = "await"
    /\ nread < MaxRequests
    /\ nread' = nread + 1
    /\ \E how \in {"readError", "parseError"} : lastRead' = how
    /\ pc' = "closed"
    /\ UNCHANGED <<req, call, procs, ctxErr, out, reqSent, ret, parsed, sbVars, chVars, exVars, bdVars, psVars, trVars>>

\* ReadRequest returns another error, a failed read or a line that is no
\* JSON request: Run logs it and reads again
ReadFailure ==
    /\ pc = "await"
    /\ nread < MaxRequests
    /\ nread' = nread + 1
    /\ \E how \in {"readError", "parseError"} : lastRead' = how
    /\ UNCHANGED <<pc, req, call, procs, ctxErr, out, reqSent, ret, parsed, sbVars, chVars, exVars, bdVars, psVars, trVars>>

\* ReadRequest reading on while the request before is still being handled, as
\* it would with one goroutine per request
ReadRequest_Concurrent ==
    /\ pc \in {"await", "running"}
    /\ nread < MaxRequests
    /\ nread' = nread + 1
    /\ lastRead' = "request"
    /\ \E r \in Requests(nread + 1) : req' = r
    /\ pc' = "routing"
    /\ tracer' = TraceIncoming(tracer, "request", nread + 1)
    /\ UNCHANGED <<call, procs, ctxErr, out, reqSent, ret, parsed, sbVars, chVars, exVars, bdVars, psVars, trCalls>>

\* ReadRequest returns a request
ReadRequest ==
    /\ pc = "await"
    /\ nread < MaxRequests
    /\ nread' = nread + 1
    /\ lastRead' = "request"
    /\ \E r \in Requests(nread + 1) : req' = r
    /\ pc' = "routing"
    /\ tracer' = TraceIncoming(tracer, "request", nread + 1)
    /\ UNCHANGED <<call, procs, ctxErr, out, reqSent, ret, parsed, sbVars, chVars, exVars, bdVars, psVars, trCalls>>

\* a handler that answers at once and lets Run await the next request
Answer(resp, t) ==
    /\ Reply(resp, t)
    /\ pc' = "handled"
    /\ UNCHANGED <<nread, lastRead, req, call, procs, ctxErr, ret, parsed>>
    /\ UNCHANGED <<sbVars, chVars, exVars, bdVars, psVars, trCalls>>

handleInitialize ==
    /\ pc = "routing"
    /\ req.method = "initialize"
    /\ IF req.params.state = "malformed"
       THEN Answer(ErrorResponse(req.id, InvalidParams, MsgInvalidParameters, <<>>), tracer)
       ELSE Answer(ResultResponse(req.id, "initialize", <<>>, NoError, FALSE),
                   TraceOutgoing(tracer, "response", nread))

handleToolsList ==
    /\ pc = "routing"
    /\ req.method = "tools/list"
    /\ Answer(ResultResponse(req.id, "tools/list", <<>>, NoError, FALSE),
              TraceOutgoing(tracer, "response", nread))

handlePromptsList ==
    /\ pc = "routing"
    /\ req.method = "prompts/list"
    /\ Answer(ResultResponse(req.id, "prompts/list", <<>>, NoError, FALSE),
              TraceOutgoing(tracer, "response", nread))

handleResourcesList ==
    /\ pc = "routing"
    /\ req.method = "resources/list"
    /\ Answer(ResultResponse(req.id, "resources/list", <<>>, NoError, FALSE),
              TraceOutgoing(tracer, "response", nread))

\* handleNotificationInitialized answering the notification with an empty result
handleNotificationInitialized_Replies ==
    /\ pc = "routing"
    /\ req.method = "notifications/initialized"
    /\ Answer(ResultResponse(req.id, "notifications/initialized", <<>>, NoError, FALSE),
              TraceIncoming(tracer, "notification", nread))

handleNotificationInitialized ==
    /\ pc = "routing"
    /\ req.method = "notifications/initialized"
    /\ pc' = "handled"
    /\ tracer' = TraceIncoming(tracer, "notification", nread)
    /\ UNCHANGED <<nread, lastRead, req, call, procs, ctxErr, out, reqSent, ret, parsed, sbVars, chVars, exVars, bdVars, psVars, trCalls>>

\* the default case of handleRequest
handleUnknownMethod ==
    /\ pc = "routing"
    /\ req.method \notin KnownMethods
    /\ Answer(methodNotFound(req.id, req.method), tracer)

\* Execute returns without a process: the Builder or the Sandbox refused
executeRefused(err) ==
    /\ ret' = Return(<<>>, err)
    /\ Reply(toolCallResponse(req.id, Return(<<>>, err)),
             TraceOutgoing(TraceIncoming(tracer, "tool_call", nread), "tool_error", nread))
    /\ pc' = "handled"
    /\ UNCHANGED <<nread, lastRead, req, procs, ctxErr, parsed, sbVars, chVars, exVars, bdVars, psVars, trCalls>>

\* executeStart running whatever the Builder produced, the Sandbox's verdict unread
executeStart_Unvalidated(cfg, tool, args) ==
    LET built == BuildCommand(cfg, tool, args)
    IN  IF built.err # NoError
        THEN executeRefused(Error("failed to build command", built.err.kind))
        ELSE /\ \E state \in {"running", "failed"} :
                   procs' = Append(procs, Process(nread, built.val, resolveWorkingDir(cfg),
                                                  Environ \o cfg.Settings.Environment, state))
             /\ pc' = "running"
             /\ tracer' = TraceIncoming(tracer, "tool_call", nread)
             /\ UNCHANGED <<nread, lastRead, req, ctxErr, out, reqSent, ret, parsed, sbVars, chVars, exVars, bdVars, psVars, trCalls>>

\* Execute up to cmd.Run (lines 33-80): build, validate, then start the process;
\* the start itself can fail (no such program), and then cmd.Run returns at once
executeStart(cfg, tool, args) ==
    LET built == BuildCommand(cfg, tool, args)
    IN  IF built.err # NoError
        THEN executeRefused(Error("failed to build command", built.err.kind))
        ELSE LET verdict == ValidateCommand(built.val, cfg.Security)
             IN  IF verdict # NoError
                 THEN executeRefused(Error("command blocked by security policy", verdict.kind))
                 ELSE /\ \E state \in {"running", "failed"} :
                            procs' = Append(procs, Process(nread, built.val, resolveWorkingDir(cfg),
                                                           Environ \o cfg.Settings.Environment, state))
                      /\ pc' = "running"
                      /\ tracer' = TraceIncoming(tracer, "tool_call", nread)
                      /\ UNCHANGED <<nread, lastRead, req, ctxErr, out, reqSent, ret, parsed, sbVars, chVars, exVars, bdVars, psVars, trCalls>>

\* handleToolCall running the first chain step of a tool that declares a
\* chain, in place of the tool's own command
handleToolCall_RunsChain ==
    /\ pc = "routing"
    /\ req.method = "tools/call"
    /\ IF req.params.state # "ok"
       THEN /\ Answer(ErrorResponse(req.id, InvalidParams, MsgInvalidParameters, <<>>), tracer)
       ELSE IF req.params.name \notin DOMAIN toolsIndex
       THEN /\ Answer(toolNotFound(req.id, req.params.name), tracer)
       ELSE IF findConfig(req.params.name) = 0
       THEN /\ Answer(ErrorResponse(req.id, InternalError, MsgConfigNotFound, <<>>), tracer)
       ELSE LET c == [cfg |-> findConfig(req.params.name),
                      place |-> toolsIndex[req.params.name],
                      args |-> req.params.arguments]
                tool == Configs[c.place[1]].Tools[c.place[2]]
            IN  /\ call' = c
                /\ IF tool.Chain = <<>>
                   THEN executeStart(Configs[c.cfg], tool, c.args)
                   ELSE /\ procs' = Append(procs,
                                           Process(nread,
                                                   <<Configs[c.cfg].Settings.Command, tool.Chain[1].Command>>,
                                                   Configs[c.cfg].Settings.WorkingDir,
                                                   Environ \o Configs[c.cfg].Settings.Environment,
                                                   "running"))
                        /\ pc' = "running"
                        /\ tracer' = TraceIncoming(tracer, "tool_call", nread)
                        /\ UNCHANGED <<nread, lastRead, req, ctxErr, out, reqSent, ret, parsed, sbVars, chVars, exVars, bdVars, psVars, trCalls>>

handleToolCall ==
    /\ pc = "routing"
    /\ req.method = "tools/call"
    /\ IF req.params.state # "ok"
       THEN /\ Answer(ErrorResponse(req.id, InvalidParams, MsgInvalidParameters, <<>>), tracer)
       ELSE IF req.params.name \notin DOMAIN toolsIndex
       THEN /\ Answer(toolNotFound(req.id, req.params.name), tracer)
       ELSE IF findConfig(req.params.name) = 0
       THEN /\ Answer(ErrorResponse(req.id, InternalError, MsgConfigNotFound, <<>>), tracer)
       ELSE LET c == [cfg |-> findConfig(req.params.name),
                      place |-> toolsIndex[req.params.name],
                      args |-> req.params.arguments]
            IN  /\ call' = c
                /\ executeStart(Configs[c.cfg], Configs[c.place[1]].Tools[c.place[2]], c.args)

\* the external process exits by itself
ProcessExit ==
    /\ pc = "running"
    /\ CurrentProc.state = "running"
    /\ \E code \in ExitCodes, so \in Stdouts, se \in Stderrs :
          procs' = [procs EXCEPT ![Len(procs)] =
                       [@ EXCEPT !.state = "exited", !.exit = code, !.stdout = so, !.stderr = se]]
    /\ UNCHANGED <<pc, nread, lastRead, req, call, ctxErr, out, reqSent, ret, parsed, sbVars, chVars, exVars, bdVars, psVars, trVars>>

\* the deadline of the call's context passes: a process still running is
\* killed, with whatever it has written so far in the buffers
DeadlineExceeded ==
    /\ pc = "running"
    /\ ~ctxErr
    /\ ctxErr' = TRUE
    /\ IF CurrentProc.state = "running"
       THEN \E so \in Stdouts, se \in Stderrs :
               procs' = [procs EXCEPT ![Len(procs)] =
                            [@ EXCEPT !.state = "killed", !.exit = 1, !.stdout = so, !.stderr = se]]
       ELSE UNCHANGED procs
    /\ UNCHANGED <<pc, nread, lastRead, req, call, out, reqSent, ret, parsed, sbVars, chVars, exVars, bdVars, psVars, trVars>>

\* cmd.Run has returned: the rest of Execute and of handleToolCall
executeReturn ==
    /\ pc = "running"
    /\ CurrentProc.state \in {"exited", "killed", "failed"}
    /\ LET r == executeResult(CallCfg, CallTool, CurrentProc, ctxErr)
       IN  /\ ret' = r.ret
           /\ parsed' = r.parsed
           /\ Reply(toolCallResponse(req.id, r.ret),
                    TraceOutgoing(tracer, IF r.ret.err # NoError THEN "tool_error" ELSE "tool_result",
                                  nread))
    /\ pc' = "handled"
    /\ UNCHANGED <<nread, lastRead, req, call, procs, ctxErr, sbVars, chVars, exVars, bdVars, psVars, trCalls>>

\* the handler has returned: Run starts the next iteration of its loop, and
\* the request, its call and its results are gone
nextIteration ==
    /\ pc = "handled"
    /\ pc' = "await"
    /\ req' = NoRequest
    /\ call' = NoCall
    /\ ctxErr' = FALSE
    /\ reqSent' = <<>>
    /\ ret' = NoRet
    /\ parsed' = FALSE
    /\ procs' = CollectAll(procs)
    /\ UNCHANGED <<nread, lastRead, out, sbVars, chVars, exVars, bdVars, psVars, trVars>>

SandboxIdle ==
    /\ sbTokens = <<>>
    /\ sbSecurity = GitConfig.Security
    /\ sbResult = Pending

ChainIdle ==
    /\ chPc = "idle"
    /\ chCfg = 0
    /\ chChain = <<>>
    /\ chArgs = <<>>
    /\ chI = 0
    /\ chProcs = <<>>
    /\ chOutputs = <<>>
    /\ chRet = NoRet

NoExecution == [ret |-> NoRet, parsed |-> FALSE]

ExecuteIdle ==
    /\ exIn = [cfg |-> 0, tool |-> 0, proc |-> 0, deadlineExceeded |-> FALSE]
    /\ exOut = NoExecution

NotBuilt == [val |-> <<>>, err |-> Pending]

BuilderIdle ==
    /\ bdTool = GitConfig.Tools[1]
    /\ bdArgs = <<>>
    /\ bdOut = NotBuilt

NotParsed == [val |-> <<>>, err |-> Pending]

ParserIdle ==
    /\ psText = <<>>
    /\ psCfg = [Type |-> "raw", Pattern |-> <<>>, Groups |-> <<>>]
    /\ psOut = NotParsed

\* the server was constructed in debug mode: its tracer records
TracerIdle ==
    /\ tracer = NewTracer(TRUE)
    /\ trCalls = <<>>

Init == ServerInit /\ SandboxIdle /\ ChainIdle /\ ExecuteIdle /\ BuilderIdle /\ ParserIdle /\ TracerIdle

Next ==
    \/ ReadEOF
    \/ ReadFailure
    \/ ReadRequest
    \/ handleInitialize
    \/ handleToolsList
    \/ handleToolCall
    \/ handlePromptsList
    \/ handleResourcesList
    \/ handleNotificationInitialized
    \/ handleUnknownMethod
    \/ ProcessExit
    \/ DeadlineExceeded
    \/ executeReturn
    \/ nextIteration

Spec == Init /\ [][Next]_vars

-----------------------------------------------------------------------------
(* Inputs of the Sandbox check                                             *)

\* the characters command lines are drawn from
Chars == {"a", "/", ".", ";"}

\* the separator between the tokens of a drawn command line
Sep == " "

\* the longest command line that is drawn, separators included
MaxLine == 5

RECURSIVE TextsOfLen(_, _)
TextsOfLen(alphabet, n) ==
    IF n = 0 THEN {<<>>}
    ELSE {Append(t, c) : t \in TextsOfLen(alphabet, n - 1), c \in alphabet}

Lines == UNION {TextsOfLen(Chars \cup {Sep}, n) : n \in 0..MaxLine}

\* the token list of a line; the empty line is the empty token list
TokensOf(line) == IF line = <<>> THEN <<>> ELSE SplitOn(line, Sep)

BlockedSets == {{}, {<<"a", "a">>}}
AllowedSets == {{}, {<<"/", "a">>}}

Securities ==
    [BlockedCommands : BlockedSets, AllowedPaths : AllowedSets,
     DisableInjectionCheck : BOOLEAN]

-----------------------------------------------------------------------------
(* Specification of the Sandbox check: ValidateCommand applied to every    *)
(* drawn token list under every drawn policy                               *)

SandboxInit ==
    /\ sbTokens \in {TokensOf(l) : l \in Lines}
    /\ sbSecurity \in Securities
    /\ sbResult = Pending
    /\ ServerInit
    /\ ChainIdle
    /\ ExecuteIdle
    /\ BuilderIdle
    /\ ParserIdle
    /\ TracerIdle

SandboxValidate ==
    /\ sbResult = Pending
    /\ sbResult' = ValidateCommand(sbTokens, sbSecurity)
    /\ UNCHANGED <<sbTokens, sbSecurity>>

SandboxNext == SandboxValidate /\ UNCHANGED <<srvVars, chVars, exVars, bdVars, psVars, trVars>>

SandboxSpec == SandboxInit /\ [][SandboxNext]_vars

-----------------------------------------------------------------------------
(* CommandExecutor.ExecuteChain                                            *)

\* strings.ReplaceAll for a non-empty old: the non-overlapping occurrences,
\* left to right
RECURSIVE ReplaceAll(_, _, _)
ReplaceAll(s, old, new) ==
    IF Len(s) < Len(old) \/ Len(s) = 0 THEN s
    ELSE IF HasPrefix(s, old) THEN new \o ReplaceAll(Drop(s, Len(old)), old, new)
    ELSE <<Head(s)>> \o ReplaceAll(Tail(s), old, new)

\* fmt.Sprintf("${%s}", key)
Placeholder(key) == <<"$", "{">> \o key \o <<"}">>

\* the orders in which a range over the map can yield its keys
KeyOrders(args) ==
    {o \in [1..Cardinality(DOMAIN args) -> DOMAIN args] :
        \A i, j \in DOMAIN o : i # j => o[i] # o[j]}

\* the loop of substituteVariables from the k-th key of the order on
RECURSIVE substituteFrom(_, _, _, _)
substituteFrom(result, args, order, k) ==
    IF k > Len(order) THEN result
    ELSE substituteFrom(ReplaceAll(result, Placeholder(order[k]), SprintV(args[order[k]])),
                        args, order, k + 1)

\* substituteVariables, the range over args yielding the keys in this order
substituteVariables(input, args, order) == substituteFrom(input, args, order, 1)

\* lines 123-132 of ExecuteChain: the command line of a step, orders[k] being
\* the key order of the substitution into the step's k-th argument
chainCmdParts(cfg, chainCmd, args, orders) ==
    <<cfg.Settings.Command>>
    \o (IF chainCmd.Command # <<>> THEN <<chainCmd.Command>> ELSE <<>>)
    \o [k \in 1..Len(chainCmd.Arguments) |->
           substituteVariables(chainCmd.Arguments[k], args, orders[k])]

\* lines 163-166 of ExecuteChain: a step's output
chainOutput(proc) ==
    proc.stdout \o (IF proc.stderr # <<>> THEN <<"LF">> \o proc.stderr ELSE <<>>)

MaxChain == 3

Chain(command, arguments) == [Command |-> command, Arguments |-> arguments]

ChainSteps ==
    { Chain(<<"l", "o", "g">>, << <<"-", "n">>, <<"$", "{", "j", "}">> >>),
      Chain(<<>>, << <<"$", "{", "k", "}", "$", "{", "j", "}">> >>) }

Chains == UNION {[1..n -> ChainSteps] : n \in 0..MaxChain}

ChainArguments ==
    { (<<"k">> :> NumberValue(7)),
      (<<"k">> :> StringValue(<<"$", "{", "j", "}">>)) @@ (<<"j">> :> StringValue(<<"v">>)),
      (<<"k">> :> StringValue(<<"/", "b">>)) @@ (<<"j">> :> StringValue(<<";">>)) }

ChainInit ==
    /\ chPc = "loop"
    /\ chCfg \in 1..Len(Configs)
    /\ chChain \in Chains
    /\ chArgs \in ChainArguments
    /\ chI = 0
    /\ chProcs = <<>>
    /\ chOutputs = <<>>
    /\ chRet = NoRet
    /\ ServerInit
    /\ SandboxIdle
    /\ ExecuteIdle
    /\ BuilderIdle
    /\ ParserIdle
    /\ TracerIdle

\* chainStepStart asking the Sandbox first, the way Execute does
chainStepStart_Validated ==
    /\ chPc = "loop"
    /\ chI < Len(chChain)
    /\ LET cfg      == Configs[chCfg]
           chainCmd == chChain[chI + 1]
       IN  \E orders \in [1..Len(chainCmd.Arguments) -> KeyOrders(chArgs)],
              state \in {"running", "failed"} :
                LET tokens == chainCmdParts(cfg, chainCmd, chArgs, orders)
                IN  IF ValidateCommand(tokens, cfg.Security) # NoError
                    THEN /\ chRet' = Return(<<>>, Error("command blocked by security policy", <<>>))
                         /\ chPc' = "returned"
                         /\ UNCHANGED chProcs
                    ELSE /\ chProcs' = Append(chProcs,
                                              Process(chI + 1, tokens, cfg.Settings.WorkingDir,
                                                      Environ \o cfg.Settings.Environment, state))
                         /\ chPc' = "running"
                         /\ UNCHANGED chRet
    /\ UNCHANGED <<chCfg, chChain, chArgs, chI, chOutputs, srvVars, sbVars, exVars, bdVars, psVars, trVars>>

\* lines 121-159 of ExecuteChain: the loop takes the next step and cmd.Run
\* starts its process (or fails to)
chainStepStart ==
    /\ chPc = "loop"
    /\ chI < Len(chChain)
    /\ LET cfg      == Configs[chCfg]
           chainCmd == chChain[chI + 1]
       IN  \E orders \in [1..Len(chainCmd.Arguments) -> KeyOrders(chArgs)],
              state \in {"running", "failed"} :
                chProcs' = Append(chProcs,
                                  Process(chI + 1, chainCmdParts(cfg, chainCmd, chArgs, orders),
                                          cfg.Settings.WorkingDir,
                                          Environ \o cfg.Settings.Environment, state))
    /\ chPc' = "running"
    /\ UNCHANGED <<chCfg, chChain, chArgs, chI, chOutputs, chRet, srvVars, sbVars, exVars, bdVars, psVars, trVars>>

\* the process of the step exits by itself
chainProcessExit ==
    /\ chPc = "running"
    /\ chProcs[Len(chProcs)].state = "running"
    /\ \E code \in ExitCodes, so \in Stdouts, se \in Stderrs :
          chProcs' = [chProcs EXCEPT ![Len(chProcs)] =
                         [@ EXCEPT !.state = "exited", !.exit = code, !.stdout = so, !.stderr = se]]
    /\ UNCHANGED <<chPc, chCfg, chChain, chArgs, chI, chOutputs, chRet, srvVars, sbVars, exVars, bdVars, psVars, trVars>>

\* lines 135-143 of ExecuteChain: the deadline of the step's context passes and
\* the process is killed
chainDeadlineExceeded ==
    /\ chPc = "running"
    /\ chProcs[Len(chProcs)].state = "running"
    /\ resolveTimeout(Configs[chCfg]) > 0
    /\ \E so \in Stdouts, se \in Stderrs :
          chProcs' = [chProcs EXCEPT ![Len(chProcs)] =
                         [@ EXCEPT !.state = "killed", !.exit = 1, !.stdout = so, !.stderr = se]]
    /\ UNCHANGED <<chPc, chCfg, chChain, chArgs, chI, chOutputs, chRet, srvVars, sbVars, exVars, bdVars, psVars, trVars>>

\* chainStepEnd going on to the next step when cmd.Run returned an error
chainStepEnd_SkipFailed ==
    /\ chPc = "running"
    /\ chProcs[Len(chProcs)].state # "running"
    /\ LET proc == chProcs[Len(chProcs)]
       IN  IF proc.state # "exited" \/ proc.exit # 0
           THEN /\ chI' = chI + 1
                /\ chPc' = "loop"
                /\ UNCHANGED <<chOutputs, chRet>>
           ELSE /\ chOutputs' = Append(chOutputs, chainOutput(proc))
                /\ chI' = chI + 1
                /\ chPc' = "loop"
                /\ UNCHANGED chRet
    /\ UNCHANGED <<chCfg, chChain, chArgs, chProcs, srvVars, sbVars, exVars, bdVars, psVars, trVars>>

\* lines 159-168 of ExecuteChain: cmd.Run has returned; on an error the chain
\* returns, otherwise the step's output is appended and the loop goes on
chainStepEnd ==
    /\ chPc = "running"
    /\ chProcs[Len(chProcs)].state # "running"
    /\ LET proc == chProcs[Len(chProcs)]
       IN  IF proc.state # "exited" \/ proc.exit # 0
           THEN /\ chRet' = Return(JoinWith(chOutputs, <<"LF">>),
                                   Error("chain step failed", Itoa(chI + 1)))
                /\ chPc' = "returned"
                /\ UNCHANGED <<chI, chOutputs>>
           ELSE /\ chOutputs' = Append(chOutputs, chainOutput(proc))
                /\ chI' = chI + 1
                /\ chPc' = "loop"
                /\ UNCHANGED chRet
    /\ UNCHANGED <<chCfg, chChain, chArgs, chProcs, srvVars, sbVars, exVars, bdVars, psVars, trVars>>

\* line 170 of ExecuteChain: every step has run
chainReturn ==
    /\ chPc = "loop"
    /\ chI = Len(chChain)
    /\ chRet' = Return(JoinWith(chOutputs, <<"LF">>), NoError)
    /\ chPc' = "returned"
    /\ UNCHANGED <<chCfg, chChain, chArgs, chI, chProcs, chOutputs, srvVars, sbVars, exVars, bdVars, psVars, trVars>>

ChainNext ==
    \/ chainStepStart
    \/ chainProcessExit
    \/ chainDeadlineExceeded
    \/ chainStepEnd
    \/ chainReturn

ChainSpec == ChainInit /\ [][ChainNext]_vars

-----------------------------------------------------------------------------
(* Specification of the tail of Execute (lines 83-114): executeResult      *)
(* applied to every drawn policy, output type and finished process         *)

\* Security.MaxOutputSize: a positive limit, or a value that sets no limit
MaxOutputSizes == {-1, 2, 3}

OutputTypes == {"raw", "json", "lines"}

\* the processes cmd.Run can have returned from, with ctx.Err() at that time:
\* one that exited by itself (the deadline may pass right after), one that
\* never started, one killed at the deadline
FinishedProcesses ==
    LET ExecuteStdouts == Stdouts \cup {<<"a", "LF", "b">>}
    IN
    {[proc |-> [Process(1, <<"g", "i", "t">>, Cwd, Environ, "exited")
                   EXCEPT !.exit = code, !.stdout = so, !.stderr = se],
      deadlineExceeded |-> d] :
        code \in ExitCodes, so \in ExecuteStdouts, se \in Stderrs, d \in BOOLEAN}
    \cup {[proc |-> Process(1, <<"g", "i", "t">>, Cwd, Environ, "failed"),
           deadlineExceeded |-> d] : d \in BOOLEAN}
    \cup {[proc |-> [Process(1, <<"g", "i", "t">>, Cwd, Environ, "killed")
                        EXCEPT !.exit = 1, !.stdout = so, !.stderr = se],
           deadlineExceeded |-> TRUE] : so \in ExecuteStdouts, se \in Stderrs}

ExecuteInit ==
    /\ \E m \in MaxOutputSizes, t \in OutputTypes, f \in FinishedProcesses :
          exIn = [cfg |-> [GitConfig EXCEPT !.Security.MaxOutputSize = m],
                  tool |-> [GitConfig.Tools[1] EXCEPT !.Output.Type = t],
                  proc |-> f.proc,
                  deadlineExceeded |-> f.deadlineExceeded]
    /\ exOut = NoExecution
    /\ ServerInit
    /\ SandboxIdle
    /\ ChainIdle
    /\ BuilderIdle
    /\ ParserIdle
    /\ TracerIdle

ExecuteFinish ==
    /\ exOut = NoExecution
    /\ exOut' = executeResult(exIn.cfg, exIn.tool, exIn.proc, exIn.deadlineExceeded)
    /\ UNCHANGED <<exIn, srvVars, sbVars, chVars, bdVars, psVars, trVars>>

ExecuteNext == ExecuteFinish

ExecuteSpec == ExecuteInit /\ [][ExecuteNext]_vars

-----------------------------------------------------------------------------
(* Specification of the Output Parser: ParseOutput applied to every drawn  *)
(* text under every drawn output configuration                             *)

\* the length of a drawn text
MaxText == 3

ParserTexts == UNION {TextsOfLen({"x", "y", "1"}, n) : n \in 0..MaxText}

\* no pattern, two that do not compile, and literals with and without groups
RegexPatterns ==
    { <<>>, <<"(">>, <<"x", ")">>, <<"x">>, <<"(", "x", ")">>, <<"x", "(", "1", ")">> }

\* the Groups of a config.Output: none, one, and two under one name
GroupLists ==
    { <<>>,
      << [Name |-> <<"n">>, Type |-> "integer"] >>,
      << [Name |-> <<"n">>, Type |-> "string"], [Name |-> <<"m">>, Type |-> "string"] >> }

OutputConfigs ==
    {[Type |-> "regex", Pattern |-> p, Groups |-> g] : p \in RegexPatterns, g \in GroupLists}
    \cup {[Type |-> t, Pattern |-> <<>>, Groups |-> <<>>] : t \in OutputTypes}

ParserInit ==
    /\ psText \in ParserTexts
    /\ psCfg \in OutputConfigs
    /\ psOut = NotParsed
    /\ ServerInit
    /\ SandboxIdle
    /\ ChainIdle
    /\ ExecuteIdle
    /\ BuilderIdle
    /\ TracerIdle

ParserParse ==
    /\ psOut = NotParsed
    /\ psOut' = ParseOutput(psText, psCfg)
    /\ UNCHANGED <<psText, psCfg, srvVars, sbVars, chVars, exVars, bdVars, trVars>>

ParserNext == ParserParse

ParserSpec == ParserInit /\ [][ParserNext]_vars

-----------------------------------------------------------------------------
(* Specification of the Tracer: any interleaving of the trace calls and of *)
(* GetNextReplayEvent on a recording, a disabled and a replaying tracer    *)

\* the number of events of a loaded trace
MaxEvents == 2

\* the number of calls made on the tracer
MaxCalls == 4

\* the traces NewReplayTracer loads
LoadedTraces ==
    UNION {[1..n -> {TraceEvent("in", "request", 1), TraceEvent("out", "response", 1)}] :
              n \in 0..MaxEvents}

TracerInit ==
    /\ tracer \in {NewTracer(e) : e \in BOOLEAN} \cup {NewReplayTracer(events) : events \in LoadedTraces}
    /\ trCalls = <<>>
    /\ ServerInit
    /\ SandboxIdle
    /\ ChainIdle
    /\ ExecuteIdle
    /\ BuilderIdle
    /\ ParserIdle

\* a call that returns nothing
Called(name) == [call |-> name, event |-> TraceEvent("", "", 0), ok |-> FALSE]

TracerTraceIncoming ==
    /\ Len(trCalls) < MaxCalls
    /\ tracer' = TraceIncoming(tracer, "request", 2)
    /\ trCalls' = Append(trCalls, Called("TraceIncoming"))
    /\ UNCHANGED <<srvVars, sbVars, chVars, exVars, bdVars, psVars>>

TracerTraceOutgoing ==
    /\ Len(trCalls) < MaxCalls
    /\ tracer' = TraceOutgoing(tracer, "response", 2)
    /\ trCalls' = Append(trCalls, Called("TraceOutgoing"))
    /\ UNCHANGED <<srvVars, sbVars, chVars, exVars, bdVars, psVars>>

TracerTraceCommand ==
    /\ Len(trCalls) < MaxCalls
    /\ tracer' = TraceCommand(tracer, 2)
    /\ trCalls' = Append(trCalls, Called("TraceCommand"))
    /\ UNCHANGED <<srvVars, sbVars, chVars, exVars, bdVars, psVars>>

TracerTraceCommandOutput ==
    /\ Len(trCalls) < MaxCalls
    /\ tracer' = TraceCommandOutput(tracer, 2)
    /\ trCalls' = Append(trCalls, Called("TraceCommandOutput"))
    /\ UNCHANGED <<srvVars, sbVars, chVars, exVars, bdVars, psVars>>

TracerGetNextReplayEvent ==
    /\ Len(trCalls) < MaxCalls
    /\ LET r == GetNextReplayEvent(tracer)
       IN  /\ tracer' = r.tracer
           /\ trCalls' = Append(trCalls, [call |-> "GetNextReplayEvent", event |-> r.event, ok |-> r.ok])
    /\ UNCHANGED <<srvVars, sbVars, chVars, exVars, bdVars, psVars>>

TracerNext ==
    \/ TracerTraceIncoming
    \/ TracerTraceOutgoing
    \/ TracerTraceCommand
    \/ TracerTraceCommandOutput
    \/ TracerGetNextReplayEvent

TracerSpec == TracerInit /\ [][TracerNext]_vars

-----------------------------------------------------------------------------
(* Specification of the Builder: BuildCommand applied to every drawn tool  *)
(* and argument map                                                        *)

\* the number of arguments a drawn tool declares
MaxArgs == 3

\* the conditional expressions the drawn arguments carry
Conditions ==
    { <<"$", "{", "a", "}", " ", "=", "=", " ", "x">>,
      <<"$", "{", "a", "}", " ", "!", "=", " ", "x">>,
      <<"$", "{", "b", "}", " ", "=", "=", " ", "t", "r", "u", "e">>,
      <<"$", "{", "a", "}", " ", "=", "=", " ", "\"", "x", "\"">>,
      <<"a", " ", "=", "=", " ", "x">>,
      <<"$", "{", "a", "}", " ", "<", " ", "7">>,
      <<"$", "{", "a", "}", "=", "=", "x">> }

\* the declarations (config.Argument) an argument of each name is drawn from
Declarations ==
    { Argument(<<"a">>, "boolean", FALSE, <<"-", "a">>, FALSE, 0),
      Argument(<<"a">>, "boolean", TRUE, <<>>, TRUE, 2),
      Argument(<<"a">>, "string", FALSE, <<"-", "-", "a", "=">>, FALSE, 0),
      Argument(<<"a">>, "integer", TRUE, <<>>, TRUE, 3),
      Argument(<<"b">>, "string", TRUE, <<>>, TRUE, 1),
      Argument(<<"b">>, "boolean", FALSE, <<>>, FALSE, 0),
      Argument(<<"b">>, "array", FALSE, <<"-", "b">>, FALSE, 0),
      [Argument(<<"b">>, "integer", FALSE, <<"-", "n">>, FALSE, 0) EXCEPT !.Default = NumberValue(5)],
      [Argument(<<"c">>, "string", TRUE, <<"-", "c">>, FALSE, 0)
          EXCEPT !.When = <<"$", "{", "a", "}", " ", "=", "=", " ", "x">>],
      [Argument(<<"c">>, "boolean", FALSE, <<"-", "c">>, FALSE, 0) EXCEPT !.Default = StringValue(<<"y">>)],
      [Argument(<<"c">>, "string", FALSE, <<>>, TRUE, 0) EXCEPT !.Default = StringValue(<<"d">>)] }
    \cup {[Argument(<<"c">>, "string", FALSE, <<"-", "c">>, FALSE, 0) EXCEPT !.When = w] : w \in Conditions}

\* the tools handed to BuildCommand: up to MaxArgs arguments with distinct
\* names, with or without a sub-command
BuilderTools ==
    {[Name |-> <<"t">>, Command |-> c, Arguments |-> as, Output |-> [Type |-> "raw"]] :
        c \in {<<>>, <<"s", "t">>},
        as \in {q \in UNION {[1..n -> Declarations] : n \in 0..MaxArgs} :
                   \A i, j \in DOMAIN q : i # j => q[i].Name # q[j].Name}}

\* no value is supplied under the name
Absent == [t |-> "absent", s |-> <<>>, b |-> FALSE, n |-> 0, items |-> <<>>]

\* the values a call supplies under each name
SuppliedValues ==
    (<<"a">> :> {Absent, BoolValue(TRUE), BoolValue(FALSE), StringValue(<<"x">>), NumberValue(7)})
    @@ (<<"b">> :> {Absent, StringValue(<<"x">>), BoolValue(TRUE), ArrayValue(<< <<"p">>, <<"q">> >>)})
    @@ (<<"c">> :> {Absent, StringValue(<<"z">>), BoolValue(TRUE)})

\* the argument maps (ToolCallParams.Arguments) handed to BuildCommand
BuilderArguments ==
    {[n \in {x \in DOMAIN SuppliedValues : choice[x] # Absent} |-> choice[n]] :
        choice \in {f \in [DOMAIN SuppliedValues -> UNION {SuppliedValues[x] : x \in DOMAIN SuppliedValues}] :
                       \A x \in DOMAIN SuppliedValues : f[x] \in SuppliedValues[x]}}

BuilderInit ==
    /\ bdTool \in BuilderTools
    /\ bdArgs \in BuilderArguments
    /\ bdOut = NotBuilt
    /\ ServerInit
    /\ SandboxIdle
    /\ ChainIdle
    /\ ExecuteIdle
    /\ ParserIdle
    /\ TracerIdle

BuilderBuild ==
    /\ bdOut = NotBuilt
    /\ bdOut' = BuildCommand(GitConfig, bdTool, bdArgs)
    /\ UNCHANGED <<bdTool, bdArgs, srvVars, sbVars, chVars, exVars, psVars, trVars>>

BuilderNext == BuilderBuild

BuilderSpec == BuilderInit /\ [][BuilderNext]_vars

-----------------------------------------------------------------------------
(* Properties of the Dispatcher and the Executor, checked under Spec       *)

\* the fully qualified names of the tools the two catalogs declare
RegisteredNames == {<<"g", "_", "s", "t">>, <<"f", "_", "l", "s">>}

\* the request being handled is a tools/call whose params parse and whose
\* name is a registered tool
ResolvedToolCall ==
    /\ req.method = "tools/call"
    /\ req.params.state = "ok"
    /\ req.params.name \in RegisteredNames

\* the output holds the complete line of a result for the request being handled
ResultLineWritten ==
    \E i \in 1..Len(out) : out[i].seq = nread /\ out[i].kind = "result" /\ out[i].complete

\* the process of the request being handled, when there is one
HasProcess == Len(procs) > 0 /\ CurrentProc.seq = nread /\ CurrentProc.state # "done"

\* C1, as claimed: a tools/call that resolves to a registered tool is answered
\* with a result envelope and never with a JSON-RPC error object; the content is
\* one text item and isError is set exactly when Execute returned an error.
C1_ResultEnvelopeNeverError ==
    ResolvedToolCall =>
        /\ \A i \in 1..Len(reqSent) : reqSent[i].kind = "result"
        /\ pc = "handled" =>
              /\ Len(reqSent) = 1
              /\ reqSent[1].body = "tools/call"
              /\ reqSent[1].isError = (ret.err # NoError)

\* C1, amended: a tools/call that resolves to a registered tool is answered
\* with a result envelope carrying one text item, with isError set exactly when
\* Execute returned an error (builder error, sandbox rejection, timeout, start
\* failure, non-zero exit); a JSON-RPC error object follows it only when writing
\* that envelope to the output failed, and it is then the InternalError object
\* Run sends; the loop goes on and never closes while the call is handled.
C1_ResultEnvelopeUnlessWriteFails ==
    ResolvedToolCall =>
        /\ pc \in {"routing", "running", "handled"}
        /\ pc \in {"routing", "running"} => reqSent = <<>>
        /\ pc = "handled" =>
              /\ Len(reqSent) \in {1, 2}
              /\ reqSent[1].kind = "result"
              /\ reqSent[1].body = "tools/call"
              /\ reqSent[1].id = req.id
              /\ ret.state = "returned"
              /\ reqSent[1].isError = (ret.err # NoError)
              /\ reqSent[1].failure = ret.err
              /\ reqSent[1].text = (IF ret.err # NoError THEN <<>> ELSE ret.output)
              /\ (HasProcess /\ (ctxErr \/ CurrentProc.state = "failed" \/ CurrentProc.exit # 0))
                    => reqSent[1].isError
              /\ (HasProcess /\ ~ctxErr /\ CurrentProc.state = "exited" /\ CurrentProc.exit = 0)
                    => ~reqSent[1].isError
              /\ ~HasProcess => reqSent[1].isError
              /\ Len(reqSent) = 1 => ResultLineWritten
              /\ Len(reqSent) = 2 =>
                    /\ ~ResultLineWritten
                    /\ reqSent[2].kind = "error"
                    /\ reqSent[2].code = -32603
                    /\ reqSent[2].id = req.id

\* C1, witness: a registered tool's process exited with a non-zero status and
\* the call was answered with one result envelope whose isError is set
C1_Witness ==
    /\ ResolvedToolCall
    /\ pc = "handled"
    /\ Len(reqSent) = 1
    /\ reqSent[1].kind = "result"
    /\ reqSent[1].isError
    /\ ret.err.kind = "command failed with exit code"

\* C2: a process exists only for a token list that BuildCommand returned without
\* error and ValidateCommand approved, and it runs exactly that list; when the
\* Builder or the Sandbox refuses, Execute has started no process for the
\* request and returns the refusal (wrapped) with empty output.
C2_ProcessOnlyAfterApproval ==
    /\ \A i \in 1..Len(procs) :
          procs[i].state # "done" =>
             /\ call # NoCall
             /\ procs[i].seq = nread
             /\ BuildCommand(CallCfg, CallTool, call.args).err = NoError
             /\ procs[i].tokens = BuildCommand(CallCfg, CallTool, call.args).val
             /\ ValidateCommand(procs[i].tokens, CallCfg.Security) = NoError
             /\ \A k \in 1..Len(procs[i].tokens) : ~Contains(procs[i].tokens[k], <<";">>)
    /\ (pc = "handled" /\ call # NoCall) =>
          LET built   == BuildCommand(CallCfg, CallTool, call.args)
              verdict == ValidateCommand(built.val, CallCfg.Security)
          IN  /\ built.err # NoError =>
                    /\ ret = Return(<<>>, Error("failed to build command", built.err.kind))
                    /\ ~HasProcess
              /\ (built.err = NoError /\ verdict # NoError) =>
                    /\ ret = Return(<<>>, Error("command blocked by security policy", verdict.kind))
                    /\ ~HasProcess

\* C2, witness: the Sandbox refused the second call, after the first call ran a process
C2_Witness ==
    /\ pc = "handled"
    /\ call # NoCall
    /\ ret.err.kind = "command blocked by security policy"
    /\ ret.output = <<>>
    /\ Len(procs) = 1
    /\ procs[1].state = "done"

\* C6: when the deadline passes while the process is still running, the process
\* is terminated and Execute returns the timeout error naming the resolved
\* duration (the catalog's, or 30 seconds when the catalog sets none) with empty
\* output: the captured output is dropped, ParseOutput is not invoked and the
\* call is not answered as a success.
C6_TimeoutDiscardsOutput ==
    /\ ctxErr => \A i \in 1..Len(procs) : procs[i].state # "running"
    /\ (pc = "handled" /\ HasProcess /\ CurrentProc.state = "killed") =>
          /\ ret.state = "returned"
          /\ ret.output = <<>>
          /\ ret.err = Error("command timed out",
                             IF call.cfg = 1 THEN <<"3", "0", "s">> ELSE <<"5", "s">>)
          /\ ~parsed
          /\ Len(reqSent) >= 1
          /\ reqSent[1].isError
          /\ reqSent[1].text = <<>>

\* C6, witness: a process of the catalog without a timeout was killed at the
\* deadline with output already captured, and Execute has returned
C6_Witness ==
    /\ pc = "handled"
    /\ HasProcess
    /\ CurrentProc.state = "killed"
    /\ CurrentProc.stdout # <<>>
    /\ call.cfg = 1
    /\ ret.err.kind = "command timed out"

\* C8: the next request is read only when the handling of the one before is
\* over (Run is awaiting, no process of it is left); every line written answers
\* the request read last, so responses appear in the order of their requests;
\* and never are two external processes in progress.
C8_StrictlySequential ==
    [][ /\ nread' # nread =>
              /\ pc = "await"
              /\ \A i \in 1..Len(procs) : procs[i].state = "done"
        /\ Len(out') >= Len(out)
        /\ SubSeq(out', 1, Len(out)) = out
        /\ \A i \in (Len(out) + 1)..Len(out') :
              /\ out'[i].seq = nread
              /\ pc \in {"routing", "running"}
        /\ Cardinality({i \in 1..Len(procs') : procs'[i].state = "running"}) <= 1 ]_vars

\* C8, witness: the second request's process is running while the output holds
\* the answer to the first request
C8_Witness ==
    /\ nread = 2
    /\ pc = "running"
    /\ Len(procs) = 2
    /\ procs[1].state = "done"
    /\ procs[2].state = "running"
    /\ Len(out) = 1
    /\ out[1].seq = 1

\* the request being handled is a tools/call whose params parse and whose name
\* (absent and empty included) is no registered tool
UnresolvedToolCall ==
    /\ req.method = "tools/call"
    /\ req.params.state = "ok"
    /\ req.params.name \notin RegisteredNames

C10_MethodNotFound ==
    (pc # "await" /\ pc # "closed"
     /\ req.method \notin {"initialize", "tools/list", "tools/call", "prompts/list",
                           "resources/list", "notifications/initialized"}) =>
        /\ pc \in {"routing", "handled"}
        /\ call = NoCall
        /\ ret = NoRet
        /\ \A i \in 1..Len(procs) : procs[i].state = "done"
        /\ pc = "handled" =>
              /\ Len(reqSent) >= 1
              /\ reqSent[1].kind = "error"
              /\ reqSent[1].code = -32601
              /\ reqSent[1].id = req.id
              /\ reqSent[1].body = req.method

\* C10, witness: a request with an id and an unknown method was answered
C10_Witness ==
    /\ pc = "handled"
    /\ req.method = "ping"
    /\ req.id # NoId
    /\ Len(reqSent) = 1
    /\ reqSent[1].code = -32601

\* the lines of the output that answer the request read last
LinesForCurrent == {i \in 1..Len(out) : out[i].seq = nread}

\* C11: Run ends (closed) exactly when a read reaches the clean end of the
\* input; a read that fails otherwise, or returns a line that is no JSON
\* request, leaves Run awaiting the next line with nothing written; once closed,
\* nothing more is read, handled or written.
C11_ClosedExactlyAtEndOfStream ==
    /\ [](pc = "closed" <=> lastRead = "eof")
    /\ [][ /\ (pc' = "closed" /\ pc # "closed") => (pc = "await" /\ lastRead' = "eof")
           /\ (nread' # nread /\ lastRead' \in {"readError", "parseError"}) =>
                 (pc = "await" /\ pc' = "await" /\ out' = out /\ procs' = procs)
           /\ pc = "closed" =>
                 (pc' = "closed" /\ nread' = nread /\ req' = req /\ out' = out
                  /\ procs' = procs /\ reqSent' = reqSent) ]_vars

\* C11, witness: Run is closed at the end of the input after two reads of
\* which one was answered
C11_Witness ==
    /\ pc = "closed"
    /\ lastRead = "eof"
    /\ nread = 2
    /\ Len(out) = 1

\* C12, as claimed: each transport-level error (a line that is no JSON, an
\* unknown method, a tools/call naming no registered tool) makes the Dispatcher
\* send a JSON-RPC error object with one of the standard codes, and the loop
\* goes on.
C12_TransportErrorsAnswered ==
    /\ lastRead = "parseError" =>
          /\ pc = "await"
          /\ \E i \in LinesForCurrent : out[i].kind = "error"
    /\ (pc = "handled" /\ (UnresolvedToolCall \/ req.method \notin KnownMethods)) =>
          /\ Len(reqSent) >= 1
          /\ reqSent[1].kind = "error"
          /\ reqSent[1].code \in {-32700, -32600, -32601, -32602, -32603}

\* C13: handling notifications/initialized writes nothing; every other parsed
\* request, with or without an id, is answered with one response, which is the
\* one line written for it when the write succeeds (a failed write is followed
\* by Run's InternalError response and nothing else).
C13_OneResponsePerRequest ==
    pc = "handled" =>
        IF req.method = "notifications/initialized"
        THEN reqSent = <<>> /\ LinesForCurrent = {}
        ELSE /\ Len(reqSent) \in {1, 2}
             /\ Cardinality({i \in LinesForCurrent : out[i].complete}) <= 1
             /\ Cardinality(LinesForCurrent) <= Len(reqSent)
             /\ Len(reqSent) = 1 =>
                   /\ Cardinality(LinesForCurrent) = 1
                   /\ \A i \in LinesForCurrent : out[i].complete /\ out[i].kind = reqSent[1].kind
             /\ Len(reqSent) = 2 =>
                   /\ reqSent[2].kind = "error"
                   /\ reqSent[2].code = -32603
                   /\ \A i \in LinesForCurrent :
                         out[i].complete => (i = Len(out) /\ out[i].kind = "error")

\* C13, witness: a tools/list request without an id was answered with one
\* line, after a first read that left the output empty
C13_Witness ==
    /\ pc = "handled"
    /\ nread = 2
    /\ req.method = "tools/list"
    /\ req.id = NoId
    /\ Len(reqSent) = 1
    /\ Len(out) = 1
    /\ out[1].seq = 2
    /\ out[1].complete

\* C15: when the process exits with status zero and ParseOutput returns an
\* error for the captured (possibly truncated) output, Execute returns that
\* output as it is with no error and the tools/call response is a success.
C15_ParseFailureIsNotFatal ==
    (pc = "handled" /\ HasProcess /\ ~ctxErr
     /\ CurrentProc.state = "exited" /\ CurrentProc.exit = 0) =>
        LET raw == combinedOutput(CurrentProc, CallCfg.Security)
        IN  /\ parsed
            /\ ret.state = "returned"
            /\ ret.err = NoError
            /\ ~reqSent[1].isError
            /\ reqSent[1].kind = "result"
            /\ (CallTool.Output.Type = "json" /\ ~IsJSON(raw)) =>
                  (ret.output = raw /\ reqSent[1].text = raw)

\* C15, witness: the output of a tool declared as JSON was cut short, is no
\* JSON, and the call was answered as a success with the raw text
C15_Witness ==
    /\ pc = "handled"
    /\ HasProcess
    /\ ~ctxErr
    /\ CurrentProc.state = "exited"
    /\ CurrentProc.exit = 0
    /\ CallTool.Output.Type = "json"
    /\ CurrentProc.stdout = <<"w", "x", "y", "z">>
    /\ HasSuffix(ret.output, TruncationMarker)
    /\ ~reqSent[1].isError

-----------------------------------------------------------------------------
(* Properties of the tail of Execute, checked under ExecuteSpec            *)

\* what the process left in its buffers: stdout, then stderr after a newline
Captured ==
    IF exIn.proc.stderr = <<>> THEN exIn.proc.stdout
    ELSE exIn.proc.stdout \o <<"LF">> \o exIn.proc.stderr

TheMarker ==
    <<"LF", ".", ".", ".", " ", "(", "o", "u", "t", "p", "u", "t", " ",
      "t", "r", "u", "n", "c", "a", "t", "e", "d", ")">>

\* Execute has returned, and not with the timeout error
ReturnedWithoutTimeout == exOut.ret.state = "returned" /\ ~exIn.deadlineExceeded

\* C14, as claimed: whenever the captured output is longer than the policy's
\* max-output-size, the text Execute returns (on success or with an execution
\* failure, for any output type) is at most max-output-size plus the marker's
\* length long and contains the marker; a shorter output is never cut and
\* carries no marker.
C14_ReturnedTextBounded ==
    ReturnedWithoutTimeout =>
        LET max == exIn.cfg.Security.MaxOutputSize
        IN  IF Len(Captured) > max
            THEN /\ Len(exOut.ret.output) <= max + Len(TheMarker)
                 /\ Contains(exOut.ret.output, TheMarker)
            ELSE ~Contains(exOut.ret.output, TheMarker)

\* C14, amended: when the max-output-size is positive and the captured output
\* is longer, the raw text of Execute is the first max-output-size characters
\* followed by the marker; otherwise the raw text is the captured output as it
\* is. Execute returns the raw text alongside an execution failure, for the
\* raw output type and when the parser fails; when the parser succeeds it
\* returns the parser's rendering of the raw text, which the bound does not cover.
C14_RawTextBounded ==
    ReturnedWithoutTimeout =>
        LET max    == exIn.cfg.Security.MaxOutputSize
            cut    == max > 0 /\ Len(Captured) > max
            raw    == IF cut THEN SubSeq(Captured, 1, max) \o TheMarker ELSE Captured
            asItIs == \/ exIn.proc.state = "failed"
                      \/ exIn.proc.exit # 0
                      \/ exIn.tool.Output.Type = "raw"
                      \/ (exIn.tool.Output.Type = "json" /\ ~IsJSON(raw))
        IN  /\ asItIs => exOut.ret.output = raw
            /\ (asItIs /\ cut) =>
                  /\ Len(exOut.ret.output) = max + Len(TheMarker)
                  /\ HasSuffix(exOut.ret.output, TheMarker)
                  /\ HasPrefix(Captured, SubSeq(exOut.ret.output, 1, max))
            /\ (asItIs /\ ~cut) => exOut.ret.output = Captured
            /\ ~asItIs =>
                  /\ exOut.ret.err = NoError
                  /\ exOut.ret.output = ParseOutput(raw, exIn.tool.Output).val

\* C14, witness: a process that failed with five characters of output under a
\* limit of two, and Execute returned the two characters and the marker
C14_Witness ==
    /\ ReturnedWithoutTimeout
    /\ exIn.cfg.Security.MaxOutputSize = 2
    /\ exIn.proc.exit = 1
    /\ Len(Captured) > 2
    /\ exOut.ret.err.kind = "command failed with exit code"
    /\ exOut.ret.output = <<"w", "x">> \o TheMarker

-----------------------------------------------------------------------------
(* Properties of ExecuteChain, checked under ChainSpec                     *)

\* the step's process did not exit successfully
StepFailed(k) == chProcs[k].state \in {"failed", "killed"} \/ chProcs[k].exit # 0

\* what the process of step k left in its buffers, stderr after stdout
StepText(k) ==
    IF chProcs[k].stderr = <<>> THEN chProcs[k].stdout
    ELSE chProcs[k].stdout \o <<"LF">> \o chProcs[k].stderr

\* the outputs of the first n steps, one after the other with newlines between
RECURSIVE TextOfSteps(_)
TextOfSteps(n) ==
    IF n = 0 THEN <<>>
    ELSE IF n = 1 THEN StepText(1)
    ELSE TextOfSteps(n - 1) \o <<"LF">> \o StepText(n)

\* C7: ExecuteChain runs the steps in declared order, the k-th process being
\* the one of the k-th step and started only after every step before it exited
\* successfully; at the first failing step it starts no later step and returns
\* the newline-joined outputs of the steps before it with an error carrying the
\* step's 1-based index; when every step succeeds it returns the newline-joined
\* outputs of all steps and no error.
C7_ChainAbortsAtFirstFailure ==
    /\ Len(chProcs) <= Len(chChain)
    /\ \A k \in 1..Len(chProcs) :
          /\ chProcs[k].seq = k
          /\ chProcs[k].tokens[1] = Configs[chCfg].Settings.Command
          /\ Len(chProcs[k].tokens) =
                1 + (IF chChain[k].Command = <<>> THEN 0 ELSE 1) + Len(chChain[k].Arguments)
          /\ chChain[k].Command # <<>> => chProcs[k].tokens[2] = chChain[k].Command
          /\ \A j \in 1..(k - 1) : chProcs[j].state = "exited" /\ chProcs[j].exit = 0
    /\ chPc = "returned" =>
          /\ chRet.state = "returned"
          /\ \A k \in 1..Len(chProcs) : chProcs[k].state # "running"
          /\ IF Len(chProcs) > 0 /\ StepFailed(Len(chProcs))
             THEN /\ chRet.output = TextOfSteps(Len(chProcs) - 1)
                  /\ chRet.err = Error("chain step failed", <<Digits[Len(chProcs) + 1]>>)
             ELSE /\ Len(chProcs) = Len(chChain)
                  /\ chRet.output = TextOfSteps(Len(chChain))
                  /\ chRet.err = NoError
    /\ chPc # "returned" => chRet = NoRet

\* C7, witness: the second of three steps failed after the first wrote output,
\* and ExecuteChain has returned
C7_Witness ==
    /\ chPc = "returned"
    /\ Len(chChain) = 3
    /\ Len(chProcs) = 2
    /\ chProcs[1].stdout # <<>>
    /\ chProcs[2].state = "exited"
    /\ chProcs[2].exit = 1
    /\ chRet.err.kind = "chain step failed"

-----------------------------------------------------------------------------
(* Properties of the Sandbox, checked under SandboxSpec                    *)

HasSemicolon == \E i \in 1..Len(sbTokens) : Contains(sbTokens[i], <<";">>)

\* nothing but the injection scan stands against the token list
AllElseAcceptable ==
    /\ Len(sbTokens) > 0
    /\ Base(sbTokens[1]) \notin sbSecurity.BlockedCommands
    /\ FirstBadPath(sbTokens, sbSecurity) = 0

\* C3, as claimed: a token list with a token containing ";" is rejected when
\* injection checking is enabled, and the same list, all else being acceptable,
\* is accepted when injection checking is disabled.
C3_InjectionCheckCanBeDisabled ==
    (sbResult # Pending /\ HasSemicolon) =>
        /\ ~sbSecurity.DisableInjectionCheck => sbResult # NoError
        /\ (sbSecurity.DisableInjectionCheck /\ AllElseAcceptable) => sbResult = NoError

\* C4, as claimed: a token list is rejected when any token, at whatever
\* position, has a basename that is a blocked command.
C4_BlockedAtAnyPosition ==
    (sbResult # Pending
     /\ \E i \in 1..Len(sbTokens) : Base(sbTokens[i]) \in sbSecurity.BlockedCommands)
        => sbResult # NoError

\* C4, amended: a token list is rejected, naming the command, when the basename
\* of its first token is a blocked command, whatever its other tokens are and
\* whatever the injection-check setting is.
C4_BlockedCommandRejected ==
    (sbResult # Pending /\ Len(sbTokens) > 0
     /\ Base(sbTokens[1]) \in sbSecurity.BlockedCommands)
        => sbResult = Error("blocked", Base(sbTokens[1]))

\* C4, witness: a blocked command given by its path, followed by a token with
\* ";", was rejected as blocked
C4_Witness ==
    /\ sbResult.kind = "blocked"
    /\ Len(sbTokens) = 2
    /\ sbTokens[1] # Base(sbTokens[1])
    /\ Contains(sbTokens[2], <<";">>)

\* the elements of a path made absolute
PathElements(path) == SelectSeq(SplitOn(Abs(path), Slash), LAMBDA e : e # <<>>)

\* the path lies under the prefix: the prefix's elements begin the path's
LiesUnder(path, prefix) ==
    LET pe == PathElements(path)
        qe == PathElements(prefix)
    IN  Len(qe) <= Len(pe) /\ SubSeq(pe, 1, Len(qe)) = qe

OutsideEveryPrefix(path) == \A q \in sbSecurity.AllowedPaths : ~LiesUnder(path, q)

\* C5, as claimed: a token list is accepted only if every token after the
\* first that looks like a path lies under an allowed prefix (or the allowed set
\* is empty); a rejection for a path names a path outside every prefix; with an
\* empty allowed set no path is rejected.
C5_PathContainment ==
    sbResult # Pending =>
        /\ sbResult = NoError =>
              \A i \in 2..Len(sbTokens) :
                  looksLikeFilePath(sbTokens[i]) =>
                      (sbSecurity.AllowedPaths = {} \/ ~OutsideEveryPrefix(sbTokens[i]))
        /\ sbResult.kind = "path not allowed" =>
              /\ sbSecurity.AllowedPaths # {}
              /\ \E i \in 2..Len(sbTokens) : sbTokens[i] = sbResult.arg
              /\ OutsideEveryPrefix(sbResult.arg)

-----------------------------------------------------------------------------
(* Properties of the Builder, checked under BuilderSpec                    *)

Built == bdOut # NotBuilt

Declared == bdTool.Arguments

\* the call supplies a value under the argument's name
Supplied(arg) == arg.Name \in DOMAIN bdArgs

\* the argument has a value: the supplied one, else the declared default
HasValue(arg) == Supplied(arg) \/ arg.Default # Nil
ValueOf(arg) == IF Supplied(arg) THEN bdArgs[arg.Name] ELSE arg.Default

\* the value has the argument's declared type
WellTyped(arg, value) ==
    CASE arg.Type = "boolean" -> value.t = "bool"
      [] arg.Type \in {"integer", "float"} -> value.t = "number"
      [] arg.Type = "string" -> value.t = "string"
      [] arg.Type = "array" -> value.t = "array"
      [] OTHER -> TRUE

\* the tokens a positional and a non-positional argument stand for
PositionalTokens(arg) ==
    IF HasValue(arg) THEN <<formatValue(arg.Type, ValueOf(arg)).val>> ELSE <<>>

FlagTokens(arg) ==
    IF ~HasValue(arg) \/ (arg.When # <<>> /\ ~evaluateCondition(arg.When, bdArgs)) THEN <<>>
    ELSE buildFlag(arg, ValueOf(arg)).val

\* the places of the positional arguments in the declaration, by ascending position
ByPosition ==
    LET P == {i \in 1..Len(Declared) : Declared[i].Positional}
    IN  CHOOSE q \in [1..Cardinality(P) -> P] :
            \A i, j \in DOMAIN q : i < j => Declared[q[i]].Position < Declared[q[j]].Position

RECURSIVE PositionalPart(_)
PositionalPart(places) ==
    IF Len(places) = 0 THEN <<>>
    ELSE PositionalTokens(Declared[Head(places)]) \o PositionalPart(Tail(places))

RECURSIVE FlagPart(_)
FlagPart(arguments) ==
    IF Len(arguments) = 0 THEN <<>>
    ELSE (IF Head(arguments).Positional THEN <<>> ELSE FlagTokens(Head(arguments)))
         \o FlagPart(Tail(arguments))

\* C16: on success BuildCommand returns the base command, the tool's
\* sub-command if declared, the values of the positional arguments by ascending
\* declared position whatever the declaration order, then the tokens of the
\* non-positional arguments in declaration order; command git, tool status with
\* the booleans short and branch true gives git, status, --short, --branch.
C16_TokenOrder ==
    /\ (Built /\ bdOut.err = NoError) =>
          bdOut.val = <<GitConfig.Settings.Command>>
                      \o (IF bdTool.Command # <<>> THEN <<bdTool.Command>> ELSE <<>>)
                      \o PositionalPart(ByPosition)
                      \o FlagPart(Declared)
    /\ BuildCommand(GitConfig, GitConfig.Tools[1],
                    (<<"s">> :> BoolValue(TRUE)) @@ (<<"b">> :> BoolValue(TRUE)))
          = Ok(<< <<"g", "i", "t">>, <<"s", "t">>, <<"-", "s">>, <<"-", "b">> >>)

\* C16, witness: a flag declared first, then two positional arguments declared
\* in descending position, built into git st x 7 -c z
C16_Witness ==
    /\ Built
    /\ bdOut.err = NoError
    /\ Len(Declared) = 3
    /\ ~Declared[1].Positional
    /\ Declared[2].Positional
    /\ Declared[3].Positional
    /\ Declared[2].Position > Declared[3].Position
    /\ bdOut.val = << <<"g", "i", "t">>, <<"s", "t">>, <<"x">>, <<"7">>, <<"-", "c">>, <<"z">> >>

\* the tool without its k-th argument, and what BuildCommand returns for it
Without(k) ==
    [bdTool EXCEPT !.Arguments = SubSeq(Declared, 1, k - 1) \o SubSeq(Declared, k + 1, Len(Declared))]

BuiltWithout(k) == BuildCommand(GitConfig, Without(k), bdArgs)

\* long is short with piece put in at some place
PutIn(long, short, piece) ==
    \E i \in 0..Len(short) :
        long = SubSeq(short, 1, i) \o piece \o SubSeq(short, i + 1, Len(short))

RequiredSupplied == \A k \in DOMAIN Declared : Declared[k].Required => Supplied(Declared[k])

SuppliedWellTyped ==
    \A k \in DOMAIN Declared :
        Supplied(Declared[k]) => WellTyped(Declared[k], bdArgs[Declared[k].Name])

DefaultsWellTyped ==
    \A k \in DOMAIN Declared :
        (~Supplied(Declared[k]) /\ Declared[k].Default # Nil)
            => WellTyped(Declared[k], Declared[k].Default)

C18_ValueResolution ==
    Built =>
        /\ (\E k \in DOMAIN Declared : Declared[k].Required /\ ~HasValue(Declared[k])) =>
              /\ bdOut.err # NoError
              /\ bdOut.val = <<>>
              /\ (SuppliedWellTyped /\ DefaultsWellTyped) =>
                    bdOut.err.kind = "required argument not provided"
        /\ bdOut.err.kind = "required argument not provided" =>
              \E k \in DOMAIN Declared :
                  /\ Declared[k].Name = bdOut.err.arg
                  /\ Declared[k].Required
                  /\ ~HasValue(Declared[k])
        /\ \A k \in DOMAIN Declared :
              LET arg == Declared[k]
              IN  /\ (~arg.Required /\ ~HasValue(arg)) => bdOut = BuiltWithout(k)
                  /\ (Supplied(arg) /\ arg.Default # Nil) =>
                        bdOut = BuildCommand(GitConfig,
                                             [bdTool EXCEPT !.Arguments[k].Default = Nil], bdArgs)
                  /\ (~Supplied(arg) /\ arg.Default # Nil
                      /\ \A j \in DOMAIN Declared : Declared[j].When = <<>>) =>
                        bdOut = BuildCommand(GitConfig, bdTool, (arg.Name :> arg.Default) @@ bdArgs)

\* C18, witness: a required flag argument is missing while its condition is
\* false, and the build failed naming it
C18_Witness ==
    /\ Built
    /\ \E k \in DOMAIN Declared :
          /\ Declared[k].Required
          /\ ~Declared[k].Positional
          /\ ~HasValue(Declared[k])
          /\ Declared[k].When # <<>>
          /\ ~evaluateCondition(Declared[k].When, bdArgs)
          /\ bdOut.err = Error("required argument not provided", Declared[k].Name)
    /\ bdOut.val = <<>>

\* what a boolean argument with a boolean value contributes by the rule: the
\* flag when the value is true and a flag is configured, else nothing
BooleanTokens(arg) ==
    IF ValueOf(arg).b /\ arg.Flag # <<>>
       /\ (arg.Positional \/ arg.When = <<>> \/ evaluateCondition(arg.When, bdArgs))
    THEN <<arg.Flag>> ELSE <<>>

Words(w) == SplitOn(w, " ")

Comparison(w) == Len(Words(w)) = 3 /\ Words(w)[2] \in {<<"=", "=">>, <<"!", "=">>}

\* the comparison holds for the variable called name and the literal lit
Holds(w, name, lit) ==
    /\ Comparison(w)
    /\ name \in DOMAIN bdArgs
    /\ IF Words(w)[2] = <<"=", "=">> THEN SprintV(bdArgs[name]) = lit
       ELSE SprintV(bdArgs[name]) # lit

\* the expression has the form ${name} op literal, and it holds
HoldsAsWritten(w) ==
    /\ Comparison(w)
    /\ HasPrefix(Words(w)[1], <<"$", "{">>)
    /\ HasSuffix(Words(w)[1], <<"}">>)
    /\ Holds(w, SubSeq(Words(w)[1], 3, Len(Words(w)[1]) - 1), TrimChar(Words(w)[3], "\""))

\* the variable is the first word without a closing brace at its end and
\* without ${ at its start, whether or not it has them
HoldsAsRead(w) ==
    /\ Comparison(w)
    /\ LET w1 == Words(w)[1]
           n1 == IF Len(w1) > 0 /\ w1[Len(w1)] = "}" THEN SubSeq(w1, 1, Len(w1) - 1) ELSE w1
           n2 == IF Len(n1) > 1 /\ n1[1] = "$" /\ n1[2] = "{" THEN SubSeq(n1, 3, Len(n1)) ELSE n1
       IN  Holds(w, n2, TrimChar(Words(w)[3], "\""))

\* C20, as claimed: evaluateCondition is true only if the expression has the
\* form ${name} op literal with op == or !=, the variable is supplied and its
\* text equals (==) or differs from (!=) the literal; otherwise the condition is
\* false and the flag argument contributes no token.
C20_ConditionAsWritten ==
    Built =>
        \A k \in DOMAIN Declared :
            (~Declared[k].Positional /\ Declared[k].When # <<>>) =>
                /\ evaluateCondition(Declared[k].When, bdArgs) = HoldsAsWritten(Declared[k].When)
                /\ (~HoldsAsWritten(Declared[k].When) /\ HasValue(Declared[k])) =>
                      bdOut = BuiltWithout(k)

\* C20, amended: evaluateCondition is true only if the expression is three
\* words separated by single blanks, var op literal with op == or !=, the
\* variable (the first word, with or without the ${ and } around it) is
\* supplied, and its text equals (==) or differs from (!=) the literal (the
\* third word without double quotes around it); otherwise the condition is
\* false and the flag argument contributes no token.
C20_ConditionAsRead ==
    Built =>
        \A k \in DOMAIN Declared :
            (~Declared[k].Positional /\ Declared[k].When # <<>>) =>
                /\ evaluateCondition(Declared[k].When, bdArgs) = HoldsAsRead(Declared[k].When)
                /\ (~HoldsAsRead(Declared[k].When) /\ HasValue(Declared[k])) =>
                      bdOut = BuiltWithout(k)

\* C20, witness: the argument c is supplied but its condition ${a} != x is
\* false, a being x, and the build holds no token of it
C20_Witness ==
    /\ Built
    /\ bdOut.err = NoError
    /\ Len(Declared) = 1
    /\ Declared[1].When = <<"$", "{", "a", "}", " ", "!", "=", " ", "x">>
    /\ Supplied(Declared[1])
    /\ <<"a">> \in DOMAIN bdArgs
    /\ bdArgs[<<"a">>] = StringValue(<<"x">>)
    /\ bdOut.val = << <<"g", "i", "t">>, <<"s", "t">> >>

-----------------------------------------------------------------------------
(* Properties of the Output Parser, checked under ParserSpec               *)

\* the literal text a drawn pattern stands for
LiteralOf(pattern) == SelectSeq(pattern, LAMBDA c : c \notin {"(", ")"})

\* C21: parsing with output type regex and a valid non-empty pattern that
\* matches nowhere in the text returns, without error, the JSON encoding of
\* an empty array.
C21_NoMatchGivesEmptyArray ==
    (/\ psOut # NotParsed
     /\ psCfg.Type = "regex"
     /\ psCfg.Pattern # <<>>
     /\ regexpCompile(psCfg.Pattern).ok
     /\ ~Contains(psText, LiteralOf(psCfg.Pattern)))
        => psOut = Ok(<<"[", "]">>)

-----------------------------------------------------------------------------
(* Further properties of the Sandbox, checked under SandboxSpec            *)

\* the first token that holds one of the dangerous patterns
FirstInjected ==
    CHOOSE i \in 1..Len(sbTokens) :
        /\ hasInjectionPattern(sbTokens[i])
        /\ \A j \in 1..(i - 1) : ~hasInjectionPattern(sbTokens[j])

\* C22: with injection checking enabled, a token list in which some token
\* holds one of the dangerous patterns is rejected, and the rejection
\* identifies the offending token (and the first pattern matching in it).
C22_InjectionRejectionNamesToken ==
    (/\ sbResult # Pending
     /\ ~sbSecurity.DisableInjectionCheck
     /\ \E i \in 1..Len(sbTokens) : hasInjectionPattern(sbTokens[i]))
        => /\ sbResult # NoError
           /\ sbResult.arg = sbTokens[FirstInjected]

-----------------------------------------------------------------------------
(* Properties of the recording Tracer in the server, checked under Spec    *)

\* the events recorded for the request being handled
EventsOfCurrent == SelectSeq(tracer.events, LAMBDA e : e.seq = nread)

\* C23: with a Recording tracer the event sequence holds an inbound event
\* for every request or notification read, an outbound event for every
\* response written (error responses such as MethodNotFound and tool not
\* found included), and for every external process started a command event,
\* followed by an output event once the process has finished and Execute has
\* returned.
C23_EverythingRecorded ==
    /\ lastRead = "request" =>
          \E i \in DOMAIN tracer.events :
              tracer.events[i].Direction = "in" /\ tracer.events[i].seq = nread
    /\ \A k \in DOMAIN out :
          \E i \in DOMAIN tracer.events :
              tracer.events[i].Direction = "out" /\ tracer.events[i].seq = out[k].seq
    /\ HasProcess =>
          /\ \E i \in DOMAIN EventsOfCurrent : EventsOfCurrent[i].Type = "command"
          /\ ret # NoRet =>
                \E i, j \in DOMAIN EventsOfCurrent :
                    /\ i < j
                    /\ EventsOfCurrent[i].Type = "command"
                    /\ EventsOfCurrent[j].Type = "output"

-----------------------------------------------------------------------------
(* Properties of the Tracer, checked under TracerSpec                      *)

\* what the GetNextReplayEvent calls made so far returned, in order
Replayed == SelectSeq(trCalls, LAMBDA c : c.call = "GetNextReplayEvent")

\* C24: in replay mode successive GetNextReplayEvent calls return the loaded
\* events in their recorded order, each exactly once, and then (nil, false)
\* on every later call; no interleaving of TraceIncoming, TraceOutgoing,
\* TraceCommand and TraceCommandOutput calls changes the loaded sequence; and
\* 0 <= replayIdx <= len(events) holds in every state.
C24_ReplayIsSequentialAndReadOnly ==
    /\ [](/\ 0 <= tracer.replayIdx
          /\ tracer.replayIdx <= Len(tracer.events)
          /\ tracer.replayMode =>
                /\ tracer.replayIdx = IF Len(Replayed) < Len(tracer.events)
                                      THEN Len(Replayed) ELSE Len(tracer.events)
                /\ \A i \in DOMAIN Replayed :
                      IF i <= Len(tracer.events)
                      THEN Replayed[i].ok /\ Replayed[i].event = tracer.events[i]
                      ELSE ~Replayed[i].ok)
    /\ [][tracer.replayMode => (tracer'.replayMode /\ tracer'.events = tracer.events)]_vars

\* C24, witness: a loaded trace of two different events, a trace call made
\* between the retrievals, and a third retrieval that found nothing
C24_Witness ==
    /\ tracer.replayMode
    /\ Len(tracer.events) = 2
    /\ tracer.events[1] # tracer.events[2]
    /\ tracer.replayIdx = 2
    /\ Len(trCalls) = 4
    /\ trCalls[1].call = "GetNextReplayEvent"
    /\ trCalls[2].call = "TraceCommand"
    /\ trCalls[3].call = "GetNextReplayEvent"
    /\ trCalls[4].call = "GetNextReplayEvent"
    /\ trCalls[3].ok
    /\ ~trCalls[4].ok

-----------------------------------------------------------------------------
(* Properties of the tool resolution and of Execute, checked under Spec    *)

\* C25: for every tools/call that resolves to a tool, the tool definition
\* executed and the base command, settings and security policy used to
\* build, validate and run it come from one and the same catalog, the one that
\* declared the tool, whatever the list of catalogs the server was built with.
C25_ToolAndSettingsOfOneCatalog ==
    call # NoCall => call.cfg = call.place[1]

\* the processes started for the request being handled
ProcsOfCurrent == SelectSeq(procs, LAMBDA p : p.seq = nread /\ p.seq # 0)

-----------------------------------------------------------------------------
(* Further properties of ExecuteChain, checked under ChainSpec             *)

\* C26: ExecuteChain starts each step's process without invoking
\* ValidateCommand on the step's tokens, so that no step is refused, whatever a
\* substituted argument value brings into the tokens, and it returns the joined
\* captured output as it is, without passing it to ParseOutput.
C26_ChainIsNeitherValidatedNorParsed ==
    /\ chPc = "loop" => Len(chProcs) = chI
    /\ chPc = "running" => Len(chProcs) = chI + 1
    /\ chRet.state = "returned" =>
          /\ chRet.err.kind \in {"nil", "chain step failed"}
          /\ chRet.err # NoError =>
                /\ Len(chProcs) = chI + 1
                /\ StepFailed(Len(chProcs))
                /\ chRet.output = TextOfSteps(chI)
          /\ chRet.err = NoError =>
                /\ Len(chProcs) = Len(chChain)
                /\ chRet.output = TextOfSteps(Len(chChain))

\* C26, witness: under the catalog with the injection check, a step whose
\* substituted argument is a semicolon ran, and the chain returned its output
C26_Witness ==
    /\ chPc = "returned"
    /\ chRet.err = NoError
    /\ chCfg = 1
    /\ Len(chChain) = 1
    /\ \E i \in 1..Len(chProcs[1].tokens) : chProcs[1].tokens[i] = <<";">>
    /\ ValidateCommand(chProcs[1].tokens, Configs[chCfg].Security) = Error("injection", <<>>)
    /\ chRet.output = <<"w", "x", "y", "z">>

-----------------------------------------------------------------------------
(* Further properties of the Dispatcher, checked under Spec                *)

\* a response with a result and no error object
ResultOnly(resp) ==
    resp.kind = "result" /\ resp.body # "" /\ resp.code = 0 /\ resp.message = ""

\* a response with an error object and no result
ErrorOnly(resp) ==
    /\ resp.kind = "error"
    /\ resp.code \in {ParseError, InvalidRequest, MethodNotFound, InvalidParams, InternalError}
    /\ resp.message # ""
    /\ resp.text = <<>> /\ resp.failure = NoError /\ ~resp.isError

\* C28: every response the Dispatcher writes carries jsonrpc 2.0 and the id
\* of the request most recently read, which is the one being handled, never
\* the id of an earlier or a later request; a response has exactly one of
\* result and error set; the lines of the output follow the order of the reads.
C28_ResponseCarriesIdOfCurrentRequest ==
    /\ req # NoRequest => req.id \in {NoId, <<nread>>}
    /\ req = NoRequest => reqSent = <<>>
    /\ \A k \in DOMAIN reqSent :
          /\ reqSent[k].jsonrpc = "2.0"
          /\ reqSent[k].id = req.id
          /\ ResultOnly(reqSent[k]) # ErrorOnly(reqSent[k])
    /\ \A k \in DOMAIN out :
          /\ out[k].seq \in 1..nread
          /\ out[k].kind \in {"result", "error"}
          /\ \A j \in 1..(k - 1) : out[j].seq <= out[k].seq

\* C28, witness: the second request, with its own id, has been answered with
\* a result and, its write failing, with an error too, after the first
\* request was answered
C28_Witness ==
    /\ nread = 2
    /\ req.id = <<2>>
    /\ Len(reqSent) = 2
    /\ reqSent[1].kind = "result"
    /\ reqSent[2].kind = "error"
    /\ reqSent[2].id = <<2>>
    /\ \E j, k \in DOMAIN out : out[j].seq = 1 /\ out[k].seq = 2

\* C29: Execute reports a timeout only for a process that was still running
\* when the deadline fired: a process that exited, with status zero or not,
\* before the deadline never has the timeout error returned for it, however
\* the deadline timer and the executor interleave.
C29_TimeoutOnlyForRunningProcess ==
    (ret # NoRet /\ ret.err.kind = "command timed out") => CurrentProc.state = "killed"

-----------------------------------------------------------------------------
(* Properties of substituteVariables, checked under ChainSpec              *)

\* the template with each placeholder of a supplied argument replaced by the
\* argument's text, in one pass from left to right over the template
RECURSIVE SubstitutedOnce(_, _)
SubstitutedOnce(template, args) ==
    IF template = <<>> THEN <<>>
    ELSE LET here == {key \in DOMAIN args : HasPrefix(template, Placeholder(key))}
         IN  IF here # {}
             THEN LET key == CHOOSE key \in here : TRUE
                  IN  SprintV(args[key]) \o SubstitutedOnce(Drop(template, Len(Placeholder(key))), args)
             ELSE <<Head(template)>> \o SubstitutedOnce(Tail(template), args)

\* the tokens of a step with its templates substituted once
TokensSubstitutedOnce(cfg, chainCmd, args) ==
    <<cfg.Settings.Command>>
    \o (IF chainCmd.Command # <<>> THEN <<chainCmd.Command>> ELSE <<>>)
    \o [k \in 1..Len(chainCmd.Arguments) |-> SubstitutedOnce(chainCmd.Arguments[k], args)]

\* C30: the result of substituteVariables is determined by the template and
\* the argument map alone: the tokens of a started step are the same for every
\* order in which the arguments are visited, and they are the templates with
\* the placeholders of the original template replaced, text brought in by a
\* value not substituted again, a placeholder of no supplied argument unchanged.
C30_SubstitutionDeterminedByTemplateAndMap ==
    \A n \in DOMAIN chProcs :
        LET cfg      == Configs[chCfg]
            chainCmd == chChain[n]
        IN  /\ \A orders \in [1..Len(chainCmd.Arguments) -> KeyOrders(chArgs)] :
                  chProcs[n].tokens = chainCmdParts(cfg, chainCmd, chArgs, orders)
            /\ chProcs[n].tokens = TokensSubstitutedOnce(cfg, chainCmd, chArgs)

====
